---- MODULE Spec2Model ----
(***************************************************************************)
(* Model of the uxcanvas store (useCanvasStore), its geometry helpers and  *)
(* the Canvas pointer handlers.                                            *)
(*                                                                         *)
(* Numbers.  JavaScript numbers are modelled as exact rationals <<n, d>>   *)
(* with d > 0 and gcd(n, d) = 1; every number the model produces is        *)
(* finite (the property panel's inputs are type="number", so NaN and       *)
(* Infinity are not enterable).  The only infinite value the code can      *)
(* compute from finite ones, canvasWidth / 0 in zoomToFit, is modelled by  *)
(* the value Infinity, which Math.min then discards.                       *)
(*                                                                         *)
(* Asynchrony.  The store's async operations run synchronously up to       *)
(* their first await on the backend; the code after the await is a         *)
(* separate step (the ...Resume actions), and other handlers can run in    *)
(* between.  The continuation is kept in the variable pending.             *)
(*                                                                         *)
(* Persistence.  Every handler leaves in the variable requests the calls   *)
(* it made to the backend (the Electron main process).  The backend's own  *)
(* state (inflight, files, events, added) is changed by the backend's      *)
(* actions only; a specification composes the handlers either with the    *)
(* backend (Intake, CreateLands, DeleteLands) or without it (Detached).    *)
(***************************************************************************)
EXTENDS Integers, Sequences, FiniteSets, TLC

VARIABLES
    frames,             \* AppState.frames: sequence of Frame, last = topmost
    selectedIds,        \* AppState.selectedIds: sequence of ids
    camera,             \* AppState.camera: [x, y, zoom]
    history,            \* AppState.history: sequence of HistoryState
    historyIndex,       \* AppState.historyIndex (-1 when history is empty)
    currentWorkingDir,  \* AppState.currentWorkingDir ("" before initialisation)
    currentTool,        \* AppState.currentTool
    isSpacePressed,     \* AppState.isSpacePressed
    dragState,          \* AppState.dragState
    selectionBox,       \* AppState.selectionBox (NoBox when null)
    snapToGrid,         \* AppState.snapToGrid
    gestures,           \* number of pointer-down events handled so far
    zoomSteps,          \* number of zoom commands and wheel events handled so far
    nextId,             \* number of ids nanoid() has handed out so far
    pending,            \* continuations of async operations waiting on the backend
    requests,           \* the persistence requests the last handler handed to the backend
    inflight,           \* backend: write-frame-json calls received and not yet completed
    files,              \* backend: the frame.json record of each directory
    events,             \* backend: directories with a 'changed' notification not yet delivered
    added,              \* backend: directories with an 'added' notification not yet delivered
    saveRun,            \* history variable: saveHistory() calls in a row (capped)
    undoRun,            \* history variable: undo() calls in a row after them (capped)
    preUndo,            \* history variable: right after an undo(), <<the live state and index before it>>
    redoCut,            \* history variable: entries the saveHistory() of the last step discarded after the cursor
    mutated             \* history variable: a pointer-move has changed a frame since the last pointer-down

vars == <<frames, selectedIds, camera, history, historyIndex, currentWorkingDir,
          currentTool, isSpacePressed, dragState, selectionBox, snapToGrid,
          gestures, zoomSteps, nextId, pending, requests, inflight, files, events, added,
          saveRun, undoRun, preUndo, redoCut, mutated>>

-----------------------------------------------------------------------------
(* Bounds of the model *)

\* AppState.maxHistory scaled down (the program uses 50)
maxHistory == 3
\* nanoid() is called at most MaxIds times
MaxIds == 3
\* no handler adds frames to a collection that holds MaxFrames frames or more
MaxFrames == 3
\* at most MaxPending async operations wait on the backend at a time
MaxPending == 1
\* at most MaxGestures pointer-down events are handled
MaxGestures == 2
\* at most MaxZoomSteps zoom commands and wheel events are handled
MaxZoomSteps == 4
\* at most MaxInflight write-frame-json calls are in the main process at a time
MaxInflight == 2

-----------------------------------------------------------------------------
(* Rational arithmetic *)

Abs(n) == IF n < 0 THEN -n ELSE n

RECURSIVE GCD(_, _)
GCD(a, b) == IF b = 0 THEN a ELSE GCD(b, a % b)

\* The operations are functions of their operands, applied to values.
Rat == Int \X Int
RatPair == Rat \X Rat

NormOf[p \in Rat] ==
    LET s == IF p[2] < 0 THEN -1 ELSE 1
        g == GCD(Abs(p[1]), Abs(p[2]))
    IN  <<(s * p[1]) \div g, (s * p[2]) \div g>>
Norm(n, d) == NormOf[<<n, d>>]

R(n) == <<n, 1>>

\* common factors are cancelled before multiplying, to keep the products small
SumOf[p \in RatPair] ==
    LET a == p[1]
        b == p[2]
        g == GCD(a[2], b[2])
    IN  IF g = 0 THEN Norm(a[1] * b[2] + b[1] * a[2], a[2] * b[2])
        ELSE Norm(a[1] * (b[2] \div g) + b[1] * (a[2] \div g), (a[2] \div g) * b[2])
ProductOf[p \in RatPair] ==
    LET a == p[1]
        b == p[2]
        g1 == GCD(Abs(a[1]), b[2])
        g2 == GCD(Abs(b[1]), a[2])
    IN  IF g1 = 0 \/ g2 = 0 THEN Norm(a[1] * b[1], a[2] * b[2])
        ELSE Norm((a[1] \div g1) * (b[1] \div g2), (a[2] \div g2) * (b[2] \div g1))
QuotientOf[p \in RatPair] ==
    LET a == p[1]
        b == p[2]
        g1 == GCD(Abs(a[1]), Abs(b[1]))
        g2 == GCD(a[2], b[2])
    IN  IF g1 = 0 \/ g2 = 0 THEN Norm(a[1] * b[2], a[2] * b[1])
        ELSE Norm((a[1] \div g1) * (b[2] \div g2), (a[2] \div g2) * (b[1] \div g1))
LessOf[p \in RatPair] == p[1][1] * p[2][2] < p[2][1] * p[1][2]
NegOf[a \in Rat] == <<-a[1], a[2]>>
AbsOf[a \in Rat] == <<Abs(a[1]), a[2]>>
\* Math.round: the nearest integer, halves towards +Infinity
RoundOf[a \in Rat] == R((2 * a[1] + a[2]) \div (2 * a[2]))
MinOf[p \in RatPair] == IF LessOf[<<p[2], p[1]>>] THEN p[2] ELSE p[1]
MaxOf[p \in RatPair] == IF LessOf[p] THEN p[2] ELSE p[1]

RAdd(a, b) == SumOf[<<a, b>>]
RNeg(a) == NegOf[a]
RSub(a, b) == SumOf[<<a, NegOf[b]>>]
RMul(a, b) == ProductOf[<<a, b>>]
RDiv(a, b) == QuotientOf[<<a, b>>]
RLt(a, b) == LessOf[<<a, b>>]
RLe(a, b) == ~LessOf[<<b, a>>]
RMin(a, b) == MinOf[<<a, b>>]
RMax(a, b) == MaxOf[<<a, b>>]
RAbs(a) == AbsOf[a]
RRound(a) == RoundOf[a]

-----------------------------------------------------------------------------
(* Frames *)

\* metadata absent, or metadata.dirPath undefined
NoDir == <<>>

\* getFrameDirectoryName: every character outside [a-zA-Z0-9-_] becomes "_".
\* A name is a sequence of tokens; " " stands for any such character.
getFrameDirectoryName(name) ==
    [i \in DOMAIN name |-> IF name[i] = " " THEN "_" ELSE name[i]]

\* A Frame with the field values every creation site of the program uses
\* for color, rotation, visible and opacity.
MkFrame(id, name, x, y, w, h, locked, dir) ==
    [id |-> id, name |-> name, x |-> x, y |-> y, width |-> w, height |-> h,
     color |-> "#4ECDC480", rotation |-> R(0), locked |-> locked,
     visible |-> TRUE, opacity |-> R(1), dirPath |-> dir]

\* bounds that keep the corner the frame was given with
getFrameBoundsSameCorner(f) ==
    [x |-> f.x, y |-> f.y, width |-> RAbs(f.width), height |-> RAbs(f.height)]

\* getFrameBounds: the rectangle with non-negative extents
getFrameBounds(f) ==
    [x |-> IF RLt(f.width, R(0)) THEN RAdd(f.x, f.width) ELSE f.x,
     y |-> IF RLt(f.height, R(0)) THEN RAdd(f.y, f.height) ELSE f.y,
     width |-> RAbs(f.width),
     height |-> RAbs(f.height)]

normalizeFrame(f) ==
    LET b == getFrameBounds(f)
    IN  [f EXCEPT !.x = b.x, !.y = b.y, !.width = b.width, !.height = b.height]

Ids(fs) == {fs[i].id : i \in DOMAIN fs}
SeqToSet(s) == {s[i] : i \in DOMAIN s}

RECURSIVE Filter(_, _)
\* Array.prototype.filter with the elements to keep given as a set of indices
Filter(s, keep) ==
    IF s = <<>> THEN <<>>
    ELSE LET rest == Filter(Tail(s), {i - 1 : i \in keep \ {1}})
         IN  IF 1 \in keep THEN <<Head(s)>> \o rest ELSE rest

\* Array.prototype.findIndex, 0 when nothing matches (indices start at 1)
Least[S \in SUBSET Int] == IF S = {} THEN 0 ELSE CHOOSE i \in S : \A j \in S : i <= j
FindIndex(s, matching) == Least[matching]

IndexOfId(fs, id) == FindIndex(fs, {i \in DOMAIN fs : fs[i].id = id})

\* JSON.parse(JSON.stringify(frames)): a deep copy; a metadata or htmlPath
\* key holding undefined is dropped, which NoDir already stands for, and
\* every (finite) number and string is written and read back as itself.
JsonClone(fs) ==
    [i \in DOMAIN fs |->
        [id |-> fs[i].id, name |-> fs[i].name, x |-> fs[i].x, y |-> fs[i].y,
         width |-> fs[i].width, height |-> fs[i].height, color |-> fs[i].color,
         rotation |-> fs[i].rotation, locked |-> fs[i].locked,
         visible |-> fs[i].visible, opacity |-> fs[i].opacity,
         dirPath |-> fs[i].dirPath]]

-----------------------------------------------------------------------------
(* History *)

\* the HistoryState saveHistory() builds from the live state
Snapshot(fs, sel, cam) == [frames |-> JsonClone(fs), selectedIds |-> sel, camera |-> cam]

Live == [frames |-> frames, selectedIds |-> selectedIds, camera |-> camera]

\* saveHistory() that never evicts the oldest entry
saveHistoryNoEvict(h, idx, snap) ==
    [history |-> Append(SubSeq(h, 1, idx + 1), snap), historyIndex |-> idx + 1]

\* saveHistory() that evicts the oldest entry and advances the index as well
saveHistoryShiftAndAdvance(h, idx, snap) ==
    LET t == Append(SubSeq(h, 1, idx + 1), snap)
    IN  IF Len(t) > maxHistory
        THEN [history |-> Tail(t), historyIndex |-> idx + 1]
        ELSE [history |-> t, historyIndex |-> idx + 1]

\* saveHistory() that appends without discarding the entries after the cursor
saveHistoryKeepTail(h, idx, snap) ==
    LET t == Append(h, snap)
    IN  IF Len(t) > maxHistory
        THEN [history |-> Tail(t), historyIndex |-> idx]
        ELSE [history |-> t, historyIndex |-> idx + 1]

\* saveHistory(): history.slice(0, historyIndex + 1), push, then shift or ++
saveHistoryResult(h, idx, snap) ==
    LET t == Append(SubSeq(h, 1, idx + 1), snap)
    IN  IF Len(t) > maxHistory
        THEN [history |-> Tail(t), historyIndex |-> idx]
        ELSE [history |-> t, historyIndex |-> idx + 1]

\* undo() that restores frames and camera but leaves the selection as it is
undoKeepSelection(h, idx, live) ==
    IF idx > 0
    THEN [frames |-> JsonClone(h[idx].frames), selectedIds |-> live.selectedIds,
          camera |-> h[idx].camera, historyIndex |-> idx - 1]
    ELSE [frames |-> live.frames, selectedIds |-> live.selectedIds,
          camera |-> live.camera, historyIndex |-> idx]

\* undo() that goes back to the oldest snapshot
undoToOldest(h, idx, live) ==
    IF idx > 0
    THEN [frames |-> JsonClone(h[1].frames), selectedIds |-> h[1].selectedIds,
          camera |-> h[1].camera, historyIndex |-> 0]
    ELSE [frames |-> live.frames, selectedIds |-> live.selectedIds,
          camera |-> live.camera, historyIndex |-> idx]

\* undo(): the state to set, or the state as it is when historyIndex <= 0
undoResult(h, idx, live) ==
    IF idx > 0
    THEN [frames |-> JsonClone(h[idx].frames), selectedIds |-> h[idx].selectedIds,
          camera |-> h[idx].camera, historyIndex |-> idx - 1]
    ELSE [frames |-> live.frames, selectedIds |-> live.selectedIds,
          camera |-> live.camera, historyIndex |-> idx]

\* redo() that restores frames and selection but leaves the camera as it is
redoKeepCamera(h, idx, live) ==
    IF idx < Len(h) - 1
    THEN [frames |-> JsonClone(h[idx + 2].frames), selectedIds |-> h[idx + 2].selectedIds,
          camera |-> live.camera, historyIndex |-> idx + 1]
    ELSE [frames |-> live.frames, selectedIds |-> live.selectedIds,
          camera |-> live.camera, historyIndex |-> idx]

\* redo(): the state to set, or the state as it is at the end of the history
redoResult(h, idx, live) ==
    IF idx < Len(h) - 1
    THEN [frames |-> JsonClone(h[idx + 2].frames), selectedIds |-> h[idx + 2].selectedIds,
          camera |-> h[idx + 2].camera, historyIndex |-> idx + 1]
    ELSE [frames |-> live.frames, selectedIds |-> live.selectedIds,
          camera |-> live.camera, historyIndex |-> idx]

-----------------------------------------------------------------------------
(* Initial state: createInitialState() *)

\* null for a Point, a SelectionBox or a continuation is <<>>, a value v is <<v>>
Null == <<>>

IdleDrag == [isDragging |-> FALSE, startPoint |-> Null, dragOffset |-> Null,
             resizeHandle |-> "none"]

Init ==
    /\ frames = <<>>
    /\ selectedIds = <<>>
    /\ camera = [x |-> R(0), y |-> R(0), zoom |-> R(1)]
    /\ history = <<>>
    /\ historyIndex = -1
    /\ currentWorkingDir = ""
    /\ currentTool = "select"
    /\ isSpacePressed = FALSE
    /\ dragState = IdleDrag
    /\ selectionBox = Null
    /\ snapToGrid = FALSE
    /\ gestures = 0
    /\ zoomSteps = 0
    /\ nextId = 0
    /\ pending = <<>>
    /\ requests = <<>>
    /\ inflight = <<>>
    /\ files = [dir \in {} |-> Null]
    /\ events = {}
    /\ added = {}
    /\ saveRun = 0
    /\ undoRun = 0
    /\ preUndo = Null
    /\ redoCut = 0
    /\ mutated = FALSE

\* the mount effect has run initializeFromFileSystem
Mounted == currentWorkingDir # ""

gestureVars == <<currentTool, isSpacePressed, dragState, selectionBox, snapToGrid,
                 gestures, zoomSteps>>

\* the calls made one after the other, each batch in its order
RECURSIVE Concat(_)
Concat(batches) ==
    IF Len(batches) = 0 THEN <<>> ELSE Head(batches) \o Concat(Tail(batches))

\* the FrameJsonData writeFrameData builds: the frame without its metadata
frameJson(frame) == [frame EXCEPT !.dirPath = NoDir]

\* a call to the backend: kind is "create" (createDirectory, then frame.json
\* written into the new directory), "write" (writeFrameJson) or "delete"
\* (deleteDirectory); data is <<the record to write>>, Null for a delete
Request(kind, dir, data) == [kind |-> kind, dir |-> dir, data |-> data]

\* createFrameDirectory(basePath, getFrameDirectoryName(frame.name), frame)
createRequest(frame) ==
    Request("create", getFrameDirectoryName(frame.name), <<frameJson(frame)>>)

\* syncFrameToFS(frame): nothing without a working directory; writeFrameData
\* for a frame that has a directory, createFrameDirectory for one that has none
syncRequests(frame, cwd) ==
    IF cwd = "" THEN <<>>
    ELSE IF frame.dirPath # NoDir
    THEN <<Request("write", frame.dirPath, <<frameJson(frame)>>)>>
    ELSE <<createRequest(frame)>>

\* a handler that calls the backend for no frame
Silent == requests' = <<>>

\* the backend left out of a specification: its state stays as it is
Detached == UNCHANGED <<inflight, files, events, added>>

\* the history variables after a handler other than saveHistory and undo
Ghost ==
    /\ saveRun' = 0
    /\ undoRun' = 0
    /\ preUndo' = Null
    /\ UNCHANGED mutated

\* the same for a pointer handler, which sets the gesture's history variable
GestureGhost(m) ==
    /\ saveRun' = 0
    /\ undoRun' = 0
    /\ preUndo' = Null
    /\ mutated' = m

\* saveHistory() run as the last statement of a handler
PushHistory(fs, sel, cam) ==
    LET r == saveHistoryResult(history, historyIndex, Snapshot(fs, sel, cam))
    IN  /\ history' = r.history
        /\ historyIndex' = r.historyIndex
        /\ redoCut' = Len(history) - (historyIndex + 1)

\* a step that does not call saveHistory()
NoPush ==
    /\ UNCHANGED <<history, historyIndex>>
    /\ redoCut' = 0

-----------------------------------------------------------------------------
(* History actions *)

\* saveHistory() called on its own (a panel's onMouseUp / after updateFrame)
SaveHistory ==
    /\ Mounted
    /\ PushHistory(frames, selectedIds, camera)
    /\ saveRun' = IF undoRun > 0 THEN 1
                  ELSE IF saveRun > maxHistory THEN saveRun ELSE saveRun + 1
    /\ undoRun' = 0
    /\ preUndo' = Null
    /\ UNCHANGED mutated
    /\ Silent
    /\ UNCHANGED <<frames, selectedIds, camera, currentWorkingDir, nextId, pending>>
    /\ UNCHANGED gestureVars

Undo ==
    /\ Mounted
    /\ LET r == undoResult(history, historyIndex, Live)
       IN  /\ frames' = r.frames
           /\ selectedIds' = r.selectedIds
           /\ camera' = r.camera
           /\ historyIndex' = r.historyIndex
    /\ saveRun' = saveRun
    /\ undoRun' = IF undoRun >= maxHistory THEN undoRun ELSE undoRun + 1
    /\ preUndo' = <<[live |-> Live, index |-> historyIndex]>>
    /\ redoCut' = 0
    /\ UNCHANGED mutated
    /\ Silent
    /\ UNCHANGED <<history, currentWorkingDir, nextId, pending>>
    /\ UNCHANGED gestureVars

Redo ==
    /\ Mounted
    /\ LET r == redoResult(history, historyIndex, Live)
       IN  /\ frames' = r.frames
           /\ selectedIds' = r.selectedIds
           /\ camera' = r.camera
           /\ historyIndex' = r.historyIndex
    /\ Ghost
    /\ Silent
    /\ redoCut' = 0
    /\ UNCHANGED <<history, currentWorkingDir, nextId, pending>>
    /\ UNCHANGED gestureVars

-----------------------------------------------------------------------------
(* Selection actions *)

\* selectFrame(id, multi)
selectFrameResult(sel, id, multi) ==
    IF multi
    THEN IF id \in SeqToSet(sel)
         THEN Filter(sel, {i \in DOMAIN sel : sel[i] # id})
         ELSE Append(sel, id)
    ELSE <<id>>

\* LeftPanel.handleFrameClick: a click on a layer row
SelectFrame(id, multi) ==
    /\ Mounted
    /\ id \in Ids(frames)
    /\ selectedIds' = selectFrameResult(selectedIds, id, multi)
    /\ Ghost
    /\ Silent
    /\ NoPush
    /\ UNCHANGED <<frames, camera, currentWorkingDir, nextId, pending>>
    /\ UNCHANGED gestureVars

SelectAll ==
    /\ Mounted
    /\ selectedIds' = [i \in DOMAIN frames |-> frames[i].id]
    /\ Ghost
    /\ Silent
    /\ NoPush
    /\ UNCHANGED <<frames, camera, currentWorkingDir, nextId, pending>>
    /\ UNCHANGED gestureVars

ClearSelection ==
    /\ Mounted
    /\ selectedIds' = <<>>
    /\ Ghost
    /\ Silent
    /\ NoPush
    /\ UNCHANGED <<frames, camera, currentWorkingDir, nextId, pending>>
    /\ UNCHANGED gestureVars

-----------------------------------------------------------------------------
(* Camera *)

\* window.innerWidth and window.innerHeight
InnerWidth == 1520
InnerHeight == 800
\* the width zoomToFit reserves for the two side panels
PanelsWidth == 520

MinZoom == <<1, 10>>
MaxZoom == <<10, 1>>

RMinOf(S) == CHOOSE a \in S : \A b \in S : RLe(a, b)
RMaxOf(S) == CHOOSE a \in S : \A b \in S : RLe(b, a)

zoomInResult(cam) == [cam EXCEPT !.zoom = RMin(MaxZoom, RMul(cam.zoom, <<6, 5>>))]
zoomOutResult(cam) == [cam EXCEPT !.zoom = RMax(MinZoom, RDiv(cam.zoom, <<6, 5>>))]

\* zoomToFit(): the camera it sets; canvasWidth / 0 is <<1, 0>>, +Infinity,
\* which is larger than every number Math.min compares it with.
zoomToFitResult(fs, cam) ==
    IF fs = <<>> THEN cam
    ELSE LET minX == RMinOf({fs[i].x : i \in DOMAIN fs})
             minY == RMinOf({fs[i].y : i \in DOMAIN fs})
             maxX == RMaxOf({RAdd(fs[i].x, fs[i].width) : i \in DOMAIN fs})
             maxY == RMaxOf({RAdd(fs[i].y, fs[i].height) : i \in DOMAIN fs})
             width == RSub(maxX, minX)
             height == RSub(maxY, minY)
             centerX == RDiv(RAdd(minX, maxX), R(2))
             centerY == RDiv(RAdd(minY, maxY), R(2))
             zoomX == RDiv(R(InnerWidth - PanelsWidth), width)
             zoomY == RDiv(R(InnerHeight), height)
             zoom == RMul(RMin(RMin(zoomX, zoomY), R(1)), <<4, 5>>)
         IN  [x |-> RNeg(centerX), y |-> RNeg(centerY), zoom |-> zoom]

ZoomIn ==
    /\ Mounted
    /\ zoomSteps < MaxZoomSteps
    /\ zoomSteps' = zoomSteps + 1
    /\ camera' = zoomInResult(camera)
    /\ Ghost
    /\ Silent
    /\ NoPush
    /\ UNCHANGED <<frames, selectedIds, currentWorkingDir, nextId, pending,
                   currentTool, isSpacePressed, dragState, selectionBox, snapToGrid,
                   gestures>>

ZoomOut ==
    /\ Mounted
    /\ zoomSteps < MaxZoomSteps
    /\ zoomSteps' = zoomSteps + 1
    /\ camera' = zoomOutResult(camera)
    /\ Ghost
    /\ Silent
    /\ NoPush
    /\ UNCHANGED <<frames, selectedIds, currentWorkingDir, nextId, pending,
                   currentTool, isSpacePressed, dragState, selectionBox, snapToGrid,
                   gestures>>

ZoomToFit ==
    /\ Mounted
    /\ camera' = zoomToFitResult(frames, camera)
    /\ Ghost
    /\ Silent
    /\ NoPush
    /\ UNCHANGED <<frames, selectedIds, currentWorkingDir, nextId, pending>>
    /\ UNCHANGED gestureVars

ResetCamera ==
    /\ Mounted
    /\ camera' = [x |-> R(0), y |-> R(0), zoom |-> R(1)]
    /\ Ghost
    /\ Silent
    /\ NoPush
    /\ UNCHANGED <<frames, selectedIds, currentWorkingDir, nextId, pending>>
    /\ UNCHANGED gestureVars

-----------------------------------------------------------------------------
(* Loading the frames of the working directory *)

AUTO_LAYOUT_GAP == 120
AUTO_LAYOUT_MAX_ROW_WIDTH == 2400

\* doRectsIntersect: touching edges intersect
doRectsIntersect(x1, y1, w1, h1, x2, y2, w2, h2) ==
    ~ \/ RLt(RAdd(x1, w1), x2)
      \/ RLt(RAdd(x2, w2), x1)
      \/ RLt(RAdd(y1, h1), y2)
      \/ RLt(RAdd(y2, h2), y1)

framesOverlap(fs) ==
    \E i, j \in DOMAIN fs :
        /\ i < j
        /\ doRectsIntersect(fs[i].x, fs[i].y, fs[i].width, fs[i].height,
                            fs[j].x, fs[j].y, fs[j].width, fs[j].height)

\* the collation order of the tokens names are made of (String.localeCompare)
TokenOrder == <<" ", "_", "1", "2", "3", "4", "a", "a2", "b", "c", "Copy", "far", "Frame", "wide">>
TokenRank(t) == CHOOSE i \in DOMAIN TokenOrder : TokenOrder[i] = t

RECURSIVE NameLess(_, _)
NameLess(a, b) ==
    IF b = <<>> THEN FALSE
    ELSE IF a = <<>> THEN TRUE
    ELSE IF Head(a) = Head(b) THEN NameLess(Tail(a), Tail(b))
    ELSE TokenRank(Head(a)) < TokenRank(Head(b))

\* entries.sort by name (stable): the position of frame k in the sorted array
SortedPos(fs, k) ==
    1 + Cardinality({j \in DOMAIN fs :
                        \/ NameLess(fs[j].name, fs[k].name)
                        \/ (fs[j].name = fs[k].name /\ j < k)})

\* the index in fs of the frame at position p of the sorted array
SortedAt(fs, p) == CHOOSE k \in DOMAIN fs : SortedPos(fs, k) = p

RECURSIVE LayoutFrom(_, _, _, _, _, _)
\* the forEach over the sorted entries from position p on; acc maps the
\* index of a frame to the position it was given
LayoutFrom(fs, p, currentX, currentY, rowHeight, acc) ==
    IF p > Len(fs) THEN acc
    ELSE LET f == fs[SortedAt(fs, p)]
             wrap == /\ RLt(R(0), currentX)
                     /\ RLt(R(AUTO_LAYOUT_MAX_ROW_WIDTH), RAdd(currentX, f.width))
             cx == IF wrap THEN R(0) ELSE currentX
             cy == IF wrap THEN RAdd(currentY, RAdd(rowHeight, R(AUTO_LAYOUT_GAP)))
                   ELSE currentY
             rh == IF wrap THEN R(0) ELSE rowHeight
         IN  LayoutFrom(fs, p + 1,
                        RAdd(cx, RAdd(f.width, R(AUTO_LAYOUT_GAP))),
                        cy,
                        RMax(rh, f.height),
                        [acc EXCEPT ![SortedAt(fs, p)] = [x |-> cx, y |-> cy]])

autoLayoutFrames(fs) ==
    IF Len(fs) <= 1 \/ ~framesOverlap(fs) THEN fs
    ELSE LET pos == LayoutFrom(fs, 1, R(0), R(0), R(0),
                               [i \in DOMAIN fs |-> [x |-> R(0), y |-> R(0)]])
             placed == [i \in DOMAIN fs |-> [fs[i] EXCEPT !.x = pos[i].x, !.y = pos[i].y]]
             minX == RMinOf({placed[i].x : i \in DOMAIN fs})
             minY == RMinOf({placed[i].y : i \in DOMAIN fs})
             maxX == RMaxOf({RAdd(placed[i].x, placed[i].width) : i \in DOMAIN fs})
             maxY == RMaxOf({RAdd(placed[i].y, placed[i].height) : i \in DOMAIN fs})
             centerX == RDiv(RAdd(minX, maxX), R(2))
             centerY == RDiv(RAdd(minY, maxY), R(2))
         IN  [i \in DOMAIN fs |->
                [placed[i] EXCEPT !.x = RRound(RSub(placed[i].x, centerX)),
                                  !.y = RRound(RSub(placed[i].y, centerY))]]

\* What the backend holds for one subdirectory: kind is "ok" (frame.json
\* parses to data), "missing" (no frame.json) or "malformed" (JSON.parse throws)
DirEntry(name, kind, data) == [name |-> name, kind |-> kind, data |-> data]

\* the frame loadFramesFromDirectory synthesizes for a directory without frame.json
defaultFrame(name, rx, ry) == MkFrame(name, name, rx, ry, R(200), R(200), FALSE, name)

\* loadFramesFromDirectory: a record that does not parse makes readFrameData
\* throw, the catch block then returns [] for the whole directory
loadFramesFromDirectory(listing, rnd) ==
    IF \E i \in DOMAIN listing : listing[i].kind = "malformed" THEN <<>>
    ELSE [i \in DOMAIN listing |->
            IF listing[i].kind = "ok"
            THEN [listing[i].data EXCEPT !.dirPath = listing[i].name]
            ELSE defaultFrame(listing[i].name, rnd[i].x, rnd[i].y)]

\* the records found in the working directory at start-up
RecA == MkFrame(<<"a">>, <<"a">>, R(0), R(0), R(200), R(200), FALSE, NoDir)
RecB == MkFrame(<<"b">>, <<"b">>, R(300), R(0), R(200), R(200), TRUE, NoDir)
DirA == DirEntry(<<"a">>, "ok", RecA)
DirB == DirEntry(<<"b">>, "ok", RecB)
\* a copy of directory a made outside the application: same record, same id
DirA2 == DirEntry(<<"a2">>, "ok", RecA)
DirC == DirEntry(<<"c">>, "missing", RecA)
DirBad == DirEntry(<<"bad">>, "malformed", RecA)
\* frames far apart: the bounds of a and wide are 5000 wide, of a and far 20200
RecWide == MkFrame(<<"wide">>, <<"wide">>, R(4800), R(0), R(200), R(200), FALSE, NoDir)
RecFar == MkFrame(<<"far">>, <<"far">>, R(20000), R(0), R(200), R(200), FALSE, NoDir)
DirWide == DirEntry(<<"wide">>, "ok", RecWide)
DirFar == DirEntry(<<"far">>, "ok", RecFar)
\* (Math.random() * 400 - 200, Math.random() * 400 - 200)
RandomPoints == {[x |-> R(-200), y |-> R(-200)], [x |-> R(0), y |-> R(0)]}

\* the writes of a load: frame.json for every directory without one that is
\* read before a record fails to parse, then, when the auto layout has moved
\* the frames, syncFrameToFS for each of them
loadRequests(listing, rnd) ==
    LET bad == Least[{i \in DOMAIN listing : listing[i].kind = "malformed"}]
        loaded == loadFramesFromDirectory(listing, rnd)
        arranged == autoLayoutFrames(loaded)
    IN  Concat([i \in DOMAIN listing |->
                  IF (bad = 0 \/ i < bad) /\ listing[i].kind = "missing"
                  THEN <<Request("write", listing[i].name,
                         <<frameJson(defaultFrame(listing[i].name, rnd[i].x, rnd[i].y))>>)>>
                  ELSE <<>>])
        \o (IF Len(loaded) <= 1 \/ ~framesOverlap(loaded) THEN <<>>
            ELSE Concat([i \in DOMAIN arranged |-> syncRequests(arranged[i], "cwd")]))

\* initializeFromFileSystem, run by the mount effect of App: getCwd,
\* loadFramesFromFS (with the auto layout), zoomToFit, watchDirectory.
\* Its awaits are not interleaved with other handlers: it is the first
\* handler to run and completes before the first user event.
InitializeFromFileSystem(listing, rnd) ==
    /\ currentWorkingDir = ""
    /\ currentWorkingDir' = "cwd"
    /\ frames' = autoLayoutFrames(loadFramesFromDirectory(listing, rnd))
    /\ camera' = zoomToFitResult(frames', camera)
    /\ requests' = loadRequests(listing, rnd)
    /\ Ghost
    /\ NoPush
    /\ UNCHANGED <<selectedIds, nextId, pending>>
    /\ UNCHANGED gestureVars

-----------------------------------------------------------------------------
(* Frame operations of the store *)

\* nanoid(): the n-th id it hands out; never equal to an earlier one
NanoId(n) == <<"nano", <<"1", "2", "3", "4", "5", "6", "7", "8">>[n]>>
\* Date.now() at the n-th creation, as a token
Stamp(n) == <<"t1", "t2", "t3", "t4", "t5", "t6", "t7", "t8">>[n]

\* a continuation waiting on the backend: op names the operation, newFrames
\* are the frames whose directory is still to be created (the first one is
\* in flight), dirs the directories still to be deleted
Cont(op, newFrames, dirs) == [op |-> op, newFrames |-> newFrames, dirs |-> dirs]

RemoveAt(s, k) == SubSeq(s, 1, k - 1) \o SubSeq(s, k + 1, Len(s))

\* frame.metadata = { dirPath } on the frame with this id, if it is still there
setDirPath(fs, id, dirPath) ==
    LET k == IndexOfId(fs, id)
    IN  IF k = 0 THEN fs ELSE [fs EXCEPT ![k].dirPath = dirPath]

\* addFrame that pushes the frame as it is given
addFrameNewAsGiven(frameData, id) == [frameData EXCEPT !.id = id]

\* addFrame(frameData) up to its await: the frame pushed
addFrameNew(frameData, id) == normalizeFrame([frameData EXCEPT !.id = id])

\* LeftPanel.handleAddFrame
AddFrame ==
    /\ Mounted
    /\ nextId < MaxIds
    /\ Len(frames) < MaxFrames
    /\ Len(pending) < MaxPending
    /\ LET normalized == addFrameNew(
                MkFrame(Null, <<"Frame", "_", Stamp(nextId + 1)>>,
                        R(-100), R(-100), R(200), R(200), FALSE, NoDir),
                NanoId(nextId + 1))
       IN  /\ frames' = Append(frames, normalized)
           /\ IF currentWorkingDir # ""
              THEN /\ pending' = Append(pending, Cont("addFrame", <<normalized>>, <<>>))
                   /\ NoPush
              ELSE /\ pending' = pending
                   /\ PushHistory(frames', selectedIds, camera)
           /\ requests' = IF currentWorkingDir # "" THEN <<createRequest(normalized)>>
                          ELSE <<>>
    /\ nextId' = nextId + 1
    /\ Ghost
    /\ UNCHANGED <<selectedIds, camera, currentWorkingDir>>
    /\ UNCHANGED gestureVars

\* a failed creation that takes the new frame out of the collection again
afterCreateDropsFailed(fs, f, ok) ==
    IF ok THEN setDirPath(fs, f.id, getFrameDirectoryName(f.name))
    ELSE Filter(fs, {i \in DOMAIN fs : fs[i].id # f.id})

\* if (dirPath) { frame.metadata = { dirPath } }: the frames after
\* createFrameDirectory has returned the path (ok) or null
afterCreate(fs, f, ok) ==
    IF ok THEN setDirPath(fs, f.id, getFrameDirectoryName(f.name)) ELSE fs

\* addFrame / duplicateFrames after an await on createFrameDirectory: ok says
\* whether the directory was created.  After the last frame: saveHistory().
ResumeCreate(k, ok) ==
    /\ k \in DOMAIN pending
    /\ pending[k].op \in {"addFrame", "duplicateFrames"}
    /\ LET c == pending[k]
           f == Head(c.newFrames)
           fs == afterCreate(frames, f, ok)
       IN  /\ frames' = fs
           /\ IF Len(c.newFrames) = 1
              THEN /\ pending' = RemoveAt(pending, k)
                   /\ requests' = <<>>
                   /\ PushHistory(fs, selectedIds, camera)
              ELSE /\ pending' = [pending EXCEPT ![k].newFrames = Tail(c.newFrames)]
                   /\ requests' = <<createRequest(c.newFrames[2])>>
                   /\ NoPush
           /\ Ghost
    /\ UNCHANGED <<selectedIds, camera, currentWorkingDir, nextId>>
    /\ UNCHANGED gestureVars

\* deleteFrame(id) / deleteFrames(ids) up to the first await
deleteFramesKept(fs, ids) == Filter(fs, {i \in DOMAIN fs : fs[i].id \notin ids})
deleteFramesSelection(sel, ids) == Filter(sel, {i \in DOMAIN sel : sel[i] \notin ids})
\* the directories deleteFrameDirectory is called for, in order
deleteFramesDirs(fs, ids) ==
    LET doomed == Filter(fs, {i \in DOMAIN fs : fs[i].id \in ids /\ fs[i].dirPath # NoDir})
    IN  [i \in DOMAIN doomed |-> doomed[i].dirPath]

\* deleteFrame(id): the directory of the first frame with this id, if it has one
deleteFrameDirs(fs, id) ==
    LET k == IndexOfId(fs, id)
    IN  IF k = 0 \/ fs[k].dirPath = NoDir THEN <<>> ELSE <<fs[k].dirPath>>

\* without a directory to delete the call does not wait on the backend
DeleteCall(op, ids, dirs) ==
    /\ dirs # <<>> => Len(pending) < MaxPending
    /\ frames' = deleteFramesKept(frames, ids)
    /\ selectedIds' = deleteFramesSelection(selectedIds, ids)
    /\ IF dirs # <<>>
       THEN /\ pending' = Append(pending, Cont(op, <<>>, dirs))
            /\ requests' = <<Request("delete", Head(dirs), Null)>>
            /\ NoPush
       ELSE /\ pending' = pending
            /\ requests' = <<>>
            /\ PushHistory(frames', selectedIds', camera)
    /\ Ghost
    /\ UNCHANGED <<camera, currentWorkingDir, nextId>>
    /\ UNCHANGED gestureVars

\* getSelectedFrames()
getSelectedFrames == Filter(frames, {i \in DOMAIN frames : frames[i].id \in SeqToSet(selectedIds)})

\* RightPanel "Delete Frame": deleteFrame(singleFrame.id)
DeleteFrame ==
    /\ Mounted
    /\ Len(getSelectedFrames) = 1
    /\ DeleteCall("deleteFrame", {getSelectedFrames[1].id},
                  deleteFrameDirs(frames, getSelectedFrames[1].id))

\* Delete / Backspace key, LeftPanel.handleDelete: deleteFrames(selectedIds)
DeleteFrames ==
    /\ Mounted
    /\ Len(selectedIds) > 0
    /\ DeleteCall("deleteFrames", SeqToSet(selectedIds),
                  deleteFramesDirs(frames, SeqToSet(selectedIds)))

\* deleteFrame / deleteFrames after an await on deleteFrameDirectory
ResumeDelete(k) ==
    /\ k \in DOMAIN pending
    /\ pending[k].op \in {"deleteFrame", "deleteFrames"}
    /\ IF Len(pending[k].dirs) = 1
       THEN /\ pending' = RemoveAt(pending, k)
            /\ requests' = <<>>
            /\ PushHistory(frames, selectedIds, camera)
       ELSE /\ pending' = [pending EXCEPT ![k].dirs = Tail(pending[k].dirs)]
            /\ requests' = <<Request("delete", pending[k].dirs[2], Null)>>
            /\ NoPush
    /\ Ghost
    /\ UNCHANGED <<frames, selectedIds, camera, currentWorkingDir, nextId>>
    /\ UNCHANGED gestureVars

\* copies placed exactly on their sources
duplicateFramesNewInPlace(fs, ids, firstId) ==
    LET src == Filter(fs, {i \in DOMAIN fs : fs[i].id \in ids})
    IN  [i \in DOMAIN src |->
            [src[i] EXCEPT !.id = NanoId(firstId + i),
                           !.name = src[i].name \o <<" ", "Copy">>,
                           !.dirPath = NoDir]]

\* duplicateFrames(ids): the copies, given the ids nanoid() hands out
duplicateFramesNew(fs, ids, firstId) ==
    LET src == Filter(fs, {i \in DOMAIN fs : fs[i].id \in ids})
    IN  [i \in DOMAIN src |->
            [src[i] EXCEPT !.id = NanoId(firstId + i),
                           !.name = src[i].name \o <<" ", "Copy">>,
                           !.x = RAdd(src[i].x, R(20)),
                           !.y = RAdd(src[i].y, R(20)),
                           !.dirPath = NoDir]]

\* Ctrl/Cmd+D: duplicateFrames(selectedIds)
DuplicateFrames ==
    /\ Mounted
    /\ Len(selectedIds) > 0
    /\ Len(pending) < MaxPending
    /\ Len(frames) < MaxFrames
    /\ LET newFrames == duplicateFramesNew(frames, SeqToSet(selectedIds), nextId)
       IN  /\ nextId + Len(newFrames) <= MaxIds
           /\ frames' = frames \o newFrames
           /\ selectedIds' = [i \in DOMAIN newFrames |-> newFrames[i].id]
           /\ nextId' = nextId + Len(newFrames)
           /\ IF currentWorkingDir # "" /\ newFrames # <<>>
              THEN /\ pending' = Append(pending, Cont("duplicateFrames", newFrames, <<>>))
                   /\ requests' = <<createRequest(newFrames[1])>>
                   /\ NoPush
              ELSE /\ pending' = pending
                   /\ requests' = <<>>
                   /\ PushHistory(frames', selectedIds', camera)
    /\ Ghost
    /\ UNCHANGED <<camera, currentWorkingDir>>
    /\ UNCHANGED gestureVars

\* updateFrame(id, updates): Object.assign on the frame with this id; the
\* updates are a function from some of the field names to their new values
updateFrameResult(fs, id, updates) ==
    LET k == IndexOfId(fs, id)
    IN  IF k = 0 THEN fs
        ELSE [fs EXCEPT ![k] = [fld \in DOMAIN fs[k] |->
                                  IF fld \in DOMAIN updates THEN updates[fld]
                                  ELSE fs[k][fld]]]

\* LeftPanel.handleToggleLock: updateFrame(frame.id, {locked: !frame.locked})
ToggleLock(id) ==
    /\ Mounted
    /\ id \in Ids(frames)
    /\ frames' = updateFrameResult(frames, id,
                    [fld \in {"locked"} |-> ~frames[IndexOfId(frames, id)].locked])
    /\ requests' = syncRequests(frames'[IndexOfId(frames, id)], currentWorkingDir)
    /\ Ghost
    /\ NoPush
    /\ UNCHANGED <<selectedIds, camera, currentWorkingDir, nextId, pending>>
    /\ UNCHANGED gestureVars

-----------------------------------------------------------------------------
(* Notifications of the directory watcher: handleDirectoryChange(event) *)

handleAdded(fs, path, frameData) ==
    IF IndexOfId(fs, frameData.id) = 0
    THEN Append(fs, [frameData EXCEPT !.dirPath = path])
    ELSE fs

handleRemovedFrames(fs, path) == Filter(fs, {i \in DOMAIN fs : fs[i].dirPath # path})

\* the filter of selectedIds runs on state.frames as already filtered
handleRemovedSelection(fs, sel, path) ==
    LET left == handleRemovedFrames(fs, path)
    IN  Filter(sel, {i \in DOMAIN sel :
                       ~ \E j \in DOMAIN left : left[j].id = sel[i] /\ left[j].dirPath = path})

handleChanged(fs, path, frameData) ==
    LET k == FindIndex(fs, {i \in DOMAIN fs : fs[i].dirPath = path})
    IN  IF k = 0 THEN fs ELSE [fs EXCEPT ![k] = [frameData EXCEPT !.dirPath = path]]

\* the directories a notification can be about
Paths == ({<<"a">>, <<"b">>} \cup {frames[i].dirPath : i \in DOMAIN frames}) \ {NoDir}
\* what readFrameData finds there: a record written outside the application,
\* or the record of a live frame (written by the application itself)
Records == {RecA, [RecB EXCEPT !.x = R(20000)]} \cup {frames[i] : i \in DOMAIN frames}

DirAdded(path, frameData) ==
    /\ Mounted
    /\ Len(frames) < MaxFrames
    /\ frames' = handleAdded(frames, path, frameData)
    /\ Ghost
    /\ Silent
    /\ NoPush
    /\ UNCHANGED <<selectedIds, camera, currentWorkingDir, nextId, pending>>
    /\ UNCHANGED gestureVars

\* the 'removed' branch ending with a call of saveHistory()
DirRemovedSaving(path) ==
    /\ Mounted
    /\ frames' = handleRemovedFrames(frames, path)
    /\ selectedIds' = handleRemovedSelection(frames, selectedIds, path)
    /\ Ghost
    /\ Silent
    /\ PushHistory(frames', selectedIds', camera)
    /\ UNCHANGED <<camera, currentWorkingDir, nextId, pending>>
    /\ UNCHANGED gestureVars

DirRemoved(path) ==
    /\ Mounted
    /\ frames' = handleRemovedFrames(frames, path)
    /\ selectedIds' = handleRemovedSelection(frames, selectedIds, path)
    /\ Ghost
    /\ Silent
    /\ NoPush
    /\ UNCHANGED <<camera, currentWorkingDir, nextId, pending>>
    /\ UNCHANGED gestureVars

DirChanged(path, frameData) ==
    /\ Mounted
    /\ frames' = handleChanged(frames, path, frameData)
    /\ Ghost
    /\ Silent
    /\ NoPush
    /\ UNCHANGED <<selectedIds, camera, currentWorkingDir, nextId, pending>>
    /\ UNCHANGED gestureVars

-----------------------------------------------------------------------------
(* The backend: write-frame-json in the main process, and its watcher *)

\* the main process receives the writeFrameJson calls of the handler
Intake ==
    /\ inflight' = inflight \o SelectSeq(requests', LAMBDA r : r.kind = "write")
    /\ Len(inflight') <= MaxInflight
    /\ UNCHANGED <<files, events, added>>

\* the records on disk when initializeFromFileSystem returns, every record of
\* the listing being well-formed: each write of the load was awaited, and the
\* watcher is started after them
MountBackend ==
    /\ files' = [dir \in {frames'[i].dirPath : i \in DOMAIN frames'} |->
                   frameJson(frames'[FindIndex(frames', {i \in DOMAIN frames' :
                                                          frames'[i].dirPath = dir})])]
    /\ inflight' = <<>>
    /\ events' = {}
    /\ added' = {}

\* the fs.writeFile of one received call settles; the calls settle in any
\* order.  ok: the file holds the record and the watcher raises 'change' for
\* it; otherwise the handler throws and the file is as it was
WriteCompletes(i, ok) ==
    /\ i \in DOMAIN inflight
    /\ inflight' = RemoveAt(inflight, i)
    /\ IF ok
       THEN /\ files' = [dir \in DOMAIN files \cup {inflight[i].dir} |->
                           IF dir = inflight[i].dir THEN inflight[i].data[1]
                           ELSE files[dir]]
            /\ events' = events \cup {inflight[i].dir}
       ELSE UNCHANGED <<files, events>>
    /\ UNCHANGED added
    /\ Ghost
    /\ Silent
    /\ NoPush
    /\ UNCHANGED <<frames, selectedIds, camera, currentWorkingDir, nextId, pending>>
    /\ UNCHANGED gestureVars

\* the 'changed' notification raised for a write is delivered:
\* handleDirectoryChange reads the record the directory holds by then
ChangeNotified(path) ==
    /\ path \in events
    /\ path \in DOMAIN files
    /\ events' = events \ {path}
    /\ UNCHANGED <<inflight, files, added>>
    /\ DirChanged(path, files[path])

\* create-directory and the write of frame.json into the new directory have
\* settled for the frame at the head of continuation k: when ok, the directory
\* holds the record and the watcher has raised 'addDir' for it
CreateLands(k, ok) ==
    /\ IF ok
       THEN \E dir \in {getFrameDirectoryName(Head(pending[k].newFrames).name)} :
               /\ files' = [d \in DOMAIN files \cup {dir} |->
                              IF d = dir THEN frameJson(Head(pending[k].newFrames))
                              ELSE files[d]]
               /\ added' = added \cup {dir}
       ELSE UNCHANGED <<files, added>>
    /\ UNCHANGED <<inflight, events>>

\* delete-directory has removed the directory at the head of continuation k
DeleteLands(k) ==
    /\ files' = [d \in DOMAIN files \ {Head(pending[k].dirs)} |-> files[d]]
    /\ UNCHANGED <<inflight, events, added>>

\* the 'added' notification raised for a directory the application created is
\* delivered: handleDirectoryChange reads the record the directory holds by
\* then, and does nothing when the directory is gone
CreateNotified(path) ==
    /\ path \in added
    /\ added' = added \ {path}
    /\ UNCHANGED <<inflight, files, events>>
    /\ IF path \in DOMAIN files
       THEN DirAdded(path, files[path])
       ELSE /\ Mounted
            /\ Ghost
            /\ Silent
            /\ NoPush
            /\ UNCHANGED <<frames, selectedIds, camera, currentWorkingDir, nextId, pending>>
            /\ UNCHANGED gestureVars

-----------------------------------------------------------------------------------------------------------------------------------------------------
(* Geometry helpers of utils/canvas.ts used by the pointer handlers *)

\* the size of the canvas element: rect.width and rect.height
CanvasWidth == 1000
CanvasHeight == 800
\* AppState.gridSize
gridSize == 20

Point(x, y) == [x |-> x, y |-> y]

screenToWorld(screenX, screenY, cam, canvasWidth, canvasHeight) ==
    Point(RSub(RDiv(RSub(screenX, RDiv(canvasWidth, R(2))), cam.zoom), cam.x),
          RSub(RDiv(RSub(screenY, RDiv(canvasHeight, R(2))), cam.zoom), cam.y))

\* a transform that adds the camera translation after scaling
worldToScreenShiftLast(worldX, worldY, cam, canvasWidth, canvasHeight) ==
    Point(RAdd(RAdd(RMul(worldX, cam.zoom), cam.x), RDiv(canvasWidth, R(2))),
          RAdd(RAdd(RMul(worldY, cam.zoom), cam.y), RDiv(canvasHeight, R(2))))

worldToScreen(worldX, worldY, cam, canvasWidth, canvasHeight) ==
    Point(RAdd(RMul(RAdd(worldX, cam.x), cam.zoom), RDiv(canvasWidth, R(2))),
          RAdd(RMul(RAdd(worldY, cam.y), cam.zoom), RDiv(canvasHeight, R(2))))

isPointInFrame(point, frame) ==
    /\ RLe(frame.x, point.x)
    /\ RLe(point.x, RAdd(frame.x, frame.width))
    /\ RLe(frame.y, point.y)
    /\ RLe(point.y, RAdd(frame.y, frame.height))

\* Math.round(value / gridSize) * gridSize
snapValueToGrid(value, size) == RMul(RRound(RDiv(value, R(size))), R(size))

HandleNames == <<"nw", "n", "ne", "w", "e", "sw", "s", "se">>

\* the positions of the handles of a frame on the screen, in the order of
\* HandleNames
handlePositions(frame, cam, canvasWidth, canvasHeight) ==
    LET screenPos == worldToScreen(frame.x, frame.y, cam, canvasWidth, canvasHeight)
        width == RMul(frame.width, cam.zoom)
        height == RMul(frame.height, cam.zoom)
    IN  [i \in DOMAIN HandleNames |->
            Point(RAdd(screenPos.x,
                       IF HandleNames[i] \in {"nw", "w", "sw"} THEN R(0)
                       ELSE IF HandleNames[i] \in {"n", "s"} THEN RDiv(width, R(2))
                       ELSE width),
                  RAdd(screenPos.y,
                       IF HandleNames[i] \in {"nw", "n", "ne"} THEN R(0)
                       ELSE IF HandleNames[i] \in {"w", "e"} THEN RDiv(height, R(2))
                       ELSE height))]

\* Math.sqrt(dx * dx + dy * dy) < threshold, with threshold = handleSize + 2
\* = 10, compared as dx * dx + dy * dy < 100
nearHandle(screenX, screenY, handle) ==
    RLt(RAdd(RMul(RSub(screenX, handle.x), RSub(screenX, handle.x)),
             RMul(RSub(screenY, handle.y), RSub(screenY, handle.y))), R(100))

\* the name of the handle at position k of HandleNames, "none" for k = 0
HandleAt[k \in 0 .. 8] == IF k = 0 THEN "none" ELSE HandleNames[k]

\* getResizeHandle: the first handle, in the order of HandleNames, near the
\* pointer ("none" for null)
getResizeHandle(screenX, screenY, frame, cam, canvasWidth, canvasHeight) ==
    HandleAt[FindIndex(HandleNames,
                {i \in DOMAIN HandleNames :
                    nearHandle(screenX, screenY,
                               handlePositions(frame, cam, canvasWidth, canvasHeight)[i])})]

-----------------------------------------------------------------------------
(* The pointer handlers of Canvas.tsx.  A handler reads the state of the   *)
(* last render, which is the state the previous handler left.              *)

effectiveTool == IF isSpacePressed THEN "pan" ELSE currentTool

\* the pointer position of an event, relative to the canvas
WorldOf(screen) == screenToWorld(screen.x, screen.y, camera, R(CanvasWidth), R(CanvasHeight))

\* the first selected frame with a resize handle under the pointer, or "none"
FirstHandle[hits \in Seq(STRING)] ==
    IF \A i \in DOMAIN hits : hits[i] = "none" THEN "none"
    ELSE hits[FindIndex(hits, {i \in DOMAIN hits : hits[i] # "none"})]
handleUnderPointer(screen) ==
    FirstHandle[[i \in DOMAIN getSelectedFrames |->
                    getResizeHandle(screen.x, screen.y, getSelectedFrames[i], camera,
                                    R(CanvasWidth), R(CanvasHeight))]]

\* the index of the first frame of the collection under the pointer, or 0
clickedFrameLowest(worldPos) ==
    LET under == {i \in DOMAIN frames : isPointInFrame(worldPos, frames[i])}
    IN  IF under = {} THEN 0 ELSE CHOOSE i \in under : \A j \in under : i <= j

\* the index of the topmost frame under the pointer, or 0
clickedFrame(worldPos) ==
    LET under == {i \in DOMAIN frames : isPointInFrame(worldPos, frames[i])}
    IN  IF under = {} THEN 0 ELSE CHOOSE i \in under : \A j \in under : j <= i

\* handleMouseDown; modifier is e.shiftKey || e.metaKey || e.ctrlKey
MouseDown(screen, modifier) ==
    /\ Mounted
    /\ gestures < MaxGestures
    /\ gestures' = gestures + 1
    /\ \E worldPos \in {WorldOf(screen)}, handle \in {handleUnderPointer(screen)} :
       \E clicked \in {clickedFrame(worldPos)} :
           IF effectiveTool = "select"
           THEN IF handle # "none"
                THEN /\ dragState' = [dragState EXCEPT !.isDragging = TRUE,
                                                       !.startPoint = <<worldPos>>,
                                                       !.resizeHandle = handle]
                     /\ UNCHANGED <<selectedIds, selectionBox>>
                ELSE IF clicked # 0
                THEN /\ selectedIds' = selectFrameResult(selectedIds, frames[clicked].id, modifier)
                     /\ dragState' = [isDragging |-> TRUE,
                                      startPoint |-> <<worldPos>>,
                                      dragOffset |-> <<Point(RSub(worldPos.x, frames[clicked].x),
                                                             RSub(worldPos.y, frames[clicked].y))>>,
                                      resizeHandle |-> "none"]
                     /\ UNCHANGED selectionBox
                ELSE /\ selectedIds' = IF modifier THEN selectedIds ELSE <<>>
                     /\ selectionBox' = <<[startX |-> worldPos.x, startY |-> worldPos.y,
                                           endX |-> worldPos.x, endY |-> worldPos.y]>>
                     /\ UNCHANGED dragState
           ELSE /\ dragState' = [isDragging |-> TRUE, startPoint |-> <<worldPos>>,
                                 dragOffset |-> Null, resizeHandle |-> "none"]
                /\ UNCHANGED <<selectedIds, selectionBox>>
    /\ GestureGhost(FALSE)
    /\ Silent
    /\ NoPush
    /\ UNCHANGED <<frames, camera, currentWorkingDir, nextId, pending,
                   currentTool, isSpacePressed, snapToGrid, zoomSteps>>

\* handle.includes(letter)
HandleIncludes(handle, letter) ==
    CASE letter = "w" -> handle \in {"nw", "w", "sw"}
      [] letter = "e" -> handle \in {"ne", "e", "se"}
      [] letter = "n" -> handle \in {"nw", "n", "ne"}
      [] letter = "s" -> handle \in {"sw", "s", "se"}

\* a resize that moves the west and north edges without changing the extents
resizeUpdatesRigid(frame, handle, dx, dy, snap) ==
    LET w == HandleIncludes(handle, "w")
        e == HandleIncludes(handle, "e")
        n == HandleIncludes(handle, "n")
        s == HandleIncludes(handle, "s")
        set == (IF w THEN {"x"} ELSE {}) \cup (IF e THEN {"width"} ELSE {})
               \cup (IF n THEN {"y"} ELSE {}) \cup (IF s THEN {"height"} ELSE {})
    IN  [fld \in set |->
            CASE fld = "width" -> RAdd(frame.width, dx)
              [] fld = "x" -> RAdd(frame.x, dx)
              [] fld = "height" -> RAdd(frame.height, dy)
              [] fld = "y" -> RAdd(frame.y, dy)]

\* the updates of the resize branch for one frame: a function from the field
\* names it sets to their values
resizeUpdates(frame, handle, dx, dy, snap) ==
    LET w == HandleIncludes(handle, "w")
        e == HandleIncludes(handle, "e")
        n == HandleIncludes(handle, "n")
        s == HandleIncludes(handle, "s")
        x == RAdd(frame.x, dx)
        y == RAdd(frame.y, dy)
        set == (IF w THEN {"width", "x"} ELSE {}) \cup (IF e THEN {"width"} ELSE {})
               \cup (IF n THEN {"height", "y"} ELSE {}) \cup (IF s THEN {"height"} ELSE {})
    IN  [fld \in set |->
            CASE fld = "width" -> IF e THEN RAdd(frame.width, dx) ELSE RSub(frame.width, dx)
              [] fld = "x" -> IF snap THEN snapValueToGrid(x, gridSize) ELSE x
              [] fld = "height" -> IF s THEN RAdd(frame.height, dy) ELSE RSub(frame.height, dy)
              [] fld = "y" -> IF snap THEN snapValueToGrid(y, gridSize) ELSE y]

\* a move that never snaps to the grid
moveUpdatesUnsnapped(worldPos, dragOffset, snap) ==
    [fld \in {"x", "y"} |->
        IF fld = "x" THEN RSub(worldPos.x, dragOffset.x)
        ELSE RSub(worldPos.y, dragOffset.y)]

\* the updates of the move branch
moveUpdates(worldPos, dragOffset, snap) ==
    LET newX == RSub(worldPos.x, dragOffset.x)
        newY == RSub(worldPos.y, dragOffset.y)
    IN  [fld \in {"x", "y"} |->
            IF fld = "x" THEN (IF snap THEN snapValueToGrid(newX, gridSize) ELSE newX)
            ELSE (IF snap THEN snapValueToGrid(newY, gridSize) ELSE newY)]

\* the locked check left out
gestureSkipsMissingOnly(fs, k) == k = 0

\* if (!frame || frame.locked) return; in the resize and in the move branch,
\* k being the index frames.find returned (0 when it found none)
gestureSkips(fs, k) == k = 0 \/ fs[k].locked

\* selectedIds.forEach((id) => { ...; updateFrame(id, updates) }): U maps an
\* id to Null when the frame is skipped and to <<updates>> otherwise
RECURSIVE updateEach(_, _, _)
updateEach(fs, ids, U) ==
    IF ids = <<>> THEN fs
    ELSE updateEach(IF U[Head(ids)] = Null THEN fs
                    ELSE updateFrameResult(fs, Head(ids), U[Head(ids)][1]),
                    Tail(ids), U)

\* the frames after the resize branch
resizeSelected(fs, sel, handle, dx, dy, snap) ==
    updateEach(fs, sel,
        [id \in SeqToSet(sel) |->
            LET k == IndexOfId(fs, id)
            IN  IF gestureSkips(fs, k) THEN Null
                ELSE <<resizeUpdates(fs[k], handle, dx, dy, snap)>>])

\* the frames after the move branch
moveSelected(fs, sel, worldPos, dragOffset, snap) ==
    updateEach(fs, sel,
        [id \in SeqToSet(sel) |->
            LET k == IndexOfId(fs, id)
            IN  IF gestureSkips(fs, k) THEN Null
                ELSE <<moveUpdates(worldPos, dragOffset, snap)>>])

\* the ids of the frames the marquee from (startX, startY) to worldPos touches
selectedInBox(fs, box, worldPos) ==
    LET minX == RMin(box.startX, worldPos.x)
        maxX == RMax(box.startX, worldPos.x)
        minY == RMin(box.startY, worldPos.y)
        maxY == RMax(box.startY, worldPos.y)
        inBox == Filter(fs, {i \in DOMAIN fs :
                    doRectsIntersect(minX, minY, RSub(maxX, minX), RSub(maxY, minY),
                                     fs[i].x, fs[i].y, fs[i].width, fs[i].height)})
    IN  [i \in DOMAIN inBox |-> inBox[i].id]

\* the calls of updateFrame's syncFrameToFS, one for each frame of the
\* selection that the gesture does not skip: fs before the gesture step,
\* updated after it
updateRequests(fs, updated, sel, cwd) ==
    Concat([i \in DOMAIN sel |->
              IF gestureSkips(fs, IndexOfId(fs, sel[i])) THEN <<>>
              ELSE syncRequests(updated[IndexOfId(fs, sel[i])], cwd)])

\* a pan that moves the camera against the pointer
panCameraAgainst(cam, worldPos, start) ==
    [cam EXCEPT !.x = RSub(cam.x, RSub(worldPos.x, start.x)),
                !.y = RSub(cam.y, RSub(worldPos.y, start.y))]

\* setCamera({x: camera.x + dx, y: camera.y + dy}) of the pan branch
panCamera(cam, worldPos, start) ==
    [cam EXCEPT !.x = RAdd(cam.x, RSub(worldPos.x, start.x)),
                !.y = RAdd(cam.y, RSub(worldPos.y, start.y))]

\* handleMouseMove
MouseMove(screen) ==
    /\ Mounted
    /\ \E worldPos \in {WorldOf(screen)} :
       LET start == dragState.startPoint[1]
           dx == RSub(worldPos.x, start.x)
           dy == RSub(worldPos.y, start.y)
       IN  IF ~(dragState.isDragging /\ dragState.startPoint # Null)
           THEN UNCHANGED <<frames, selectedIds, camera, dragState, selectionBox>>
           ELSE IF effectiveTool = "select"
           THEN IF dragState.resizeHandle # "none"
                THEN /\ frames' = resizeSelected(frames, selectedIds, dragState.resizeHandle,
                                                 dx, dy, snapToGrid)
                     /\ dragState' = [dragState EXCEPT !.startPoint = <<worldPos>>]
                     /\ UNCHANGED <<selectedIds, camera, selectionBox>>
                ELSE IF dragState.dragOffset # Null
                THEN /\ frames' = moveSelected(frames, selectedIds, worldPos,
                                               dragState.dragOffset[1], snapToGrid)
                     /\ UNCHANGED <<selectedIds, camera, dragState, selectionBox>>
                ELSE IF selectionBox # Null
                THEN /\ selectionBox' = <<[selectionBox[1] EXCEPT !.endX = worldPos.x,
                                                               !.endY = worldPos.y]>>
                     /\ selectedIds' = selectedInBox(frames, selectionBox[1], worldPos)
                     /\ UNCHANGED <<frames, camera, dragState>>
                ELSE UNCHANGED <<frames, selectedIds, camera, dragState, selectionBox>>
           ELSE IF effectiveTool = "frame"
           THEN /\ selectionBox' = <<[startX |-> start.x, startY |-> start.y,
                                      endX |-> worldPos.x, endY |-> worldPos.y]>>
                /\ UNCHANGED <<frames, selectedIds, camera, dragState>>
           ELSE /\ camera' = panCamera(camera, worldPos, start)
                /\ UNCHANGED <<frames, selectedIds, dragState, selectionBox>>
    /\ requests' = IF /\ dragState.isDragging
                      /\ dragState.startPoint # Null
                      /\ effectiveTool = "select"
                      /\ (dragState.resizeHandle # "none" \/ dragState.dragOffset # Null)
                   THEN updateRequests(frames, frames', selectedIds, currentWorkingDir)
                   ELSE <<>>
    /\ GestureGhost(mutated \/ frames' # frames)
    /\ NoPush
    /\ UNCHANGED <<currentWorkingDir, nextId, pending, currentTool, isSpacePressed,
                   snapToGrid, gestures, zoomSteps>>

\* `Frame ${frames.length + 1}`
FrameName(n) == <<"Frame", " ", <<"1", "2", "3", "4", "5", "6", "7", "8">>[n]>>

\* a box of 10 world units or more in both directions is large enough
largeEnoughFromTen(width, height) ==
    RLe(R(10), RAbs(width)) /\ RLe(R(10), RAbs(height))

\* Math.abs(width) > 10 && Math.abs(height) > 10
largeEnough(width, height) ==
    RLt(R(10), RAbs(width)) /\ RLt(R(10), RAbs(height))

\* handleMouseUp: the frame tool's addFrame up to its await, saveHistory()
\* after a move or a resize, and the reset of the gesture
MouseUp(screen) ==
    /\ Mounted
    /\ \E worldPos \in {WorldOf(screen)} :
       LET start == dragState.startPoint[1]
           width == RSub(worldPos.x, start.x)
           height == RSub(worldPos.y, start.y)
           create == /\ effectiveTool = "frame"
                     /\ dragState.startPoint # Null
                     /\ largeEnough(width, height)
           x == IF snapToGrid THEN snapValueToGrid(start.x, gridSize) ELSE start.x
           y == IF snapToGrid THEN snapValueToGrid(start.y, gridSize) ELSE start.y
           normalized == addFrameNew(
                MkFrame(Null, FrameName(Len(frames) + 1), x, y, width, height, FALSE, NoDir),
                NanoId(nextId + 1))
           fs == IF create THEN Append(frames, normalized) ELSE frames
           save == /\ dragState.isDragging
                   /\ (dragState.dragOffset # Null \/ dragState.resizeHandle # "none")
       IN  /\ create => /\ nextId < MaxIds
                        /\ Len(frames) < MaxFrames
                        /\ Len(pending) < MaxPending
           /\ frames' = fs
           /\ pending' = IF create
                         THEN Append(pending, Cont("addFrame", <<normalized>>, <<>>))
                         ELSE pending
           /\ nextId' = IF create THEN nextId + 1 ELSE nextId
           /\ requests' = IF create THEN <<createRequest(normalized)>> ELSE <<>>
           /\ IF save THEN PushHistory(fs, selectedIds, camera) ELSE NoPush
    /\ dragState' = IdleDrag
    /\ selectionBox' = Null
    /\ GestureGhost(FALSE)
    /\ UNCHANGED <<selectedIds, camera, currentWorkingDir, currentTool, isSpacePressed,
                   snapToGrid, gestures, zoomSteps>>

\* a wheel zoom about the centre of the canvas: the translation stays
handleWheelResultCentred(screen, deltaYPositive, cam) ==
    LET zoomFactor == IF deltaYPositive THEN <<9, 10>> ELSE <<11, 10>>
    IN  [cam EXCEPT !.zoom = RMax(MinZoom, RMin(MaxZoom, RMul(cam.zoom, zoomFactor)))]

\* handleWheel: deltaY > 0 zooms out by 0.9, otherwise in by 1.1, keeping the
\* world point under the pointer where it is
handleWheelResult(screen, deltaYPositive, cam) ==
    LET worldPosBefore == screenToWorld(screen.x, screen.y, cam,
                                        R(CanvasWidth), R(CanvasHeight))
        zoomFactor == IF deltaYPositive THEN <<9, 10>> ELSE <<11, 10>>
        newZoom == RMax(MinZoom, RMin(MaxZoom, RMul(cam.zoom, zoomFactor)))
        worldPosAfter == screenToWorld(screen.x, screen.y, [cam EXCEPT !.zoom = newZoom],
                                       R(CanvasWidth), R(CanvasHeight))
    IN  [x |-> RAdd(cam.x, RSub(worldPosAfter.x, worldPosBefore.x)),
         y |-> RAdd(cam.y, RSub(worldPosAfter.y, worldPosBefore.y)),
         zoom |-> newZoom]

Wheel(screen, deltaYPositive) ==
    /\ Mounted
    /\ zoomSteps < MaxZoomSteps
    /\ zoomSteps' = zoomSteps + 1
    /\ camera' = handleWheelResult(screen, deltaYPositive, camera)
    /\ Ghost
    /\ Silent
    /\ NoPush
    /\ UNCHANGED <<frames, selectedIds, currentWorkingDir, nextId, pending,
                   currentTool, isSpacePressed, dragState, selectionBox, snapToGrid,
                   gestures>>

\* Toolbar and keyboard: setTool(tool)
SetTool(tool) ==
    /\ Mounted
    /\ currentTool' = tool
    /\ Ghost
    /\ Silent
    /\ NoPush
    /\ UNCHANGED <<frames, selectedIds, camera, currentWorkingDir, nextId, pending,
                   isSpacePressed, dragState, selectionBox, snapToGrid, gestures, zoomSteps>>

\* the space bar pressed or released: setSpacePressed(pressed)
SetSpacePressed(pressed) ==
    /\ Mounted
    /\ isSpacePressed' = pressed
    /\ Ghost
    /\ Silent
    /\ NoPush
    /\ UNCHANGED <<frames, selectedIds, camera, currentWorkingDir, nextId, pending,
                   currentTool, dragState, selectionBox, snapToGrid, gestures, zoomSteps>>

\* toggleSnapToGrid()
ToggleSnapToGrid ==
    /\ Mounted
    /\ snapToGrid' = ~snapToGrid
    /\ Ghost
    /\ Silent
    /\ NoPush
    /\ UNCHANGED <<frames, selectedIds, camera, currentWorkingDir, nextId, pending,
                   currentTool, isSpacePressed, dragState, selectionBox, gestures, zoomSteps>>

-----------------------------------------------------------------------------
(* The store driven by the layer panel and the directory watcher *)

StoreListings == {<<>>, <<DirA>>, <<DirA, DirB>>, <<DirA, DirA2>>, <<DirA, DirC>>,
                  <<DirC>>, <<DirA, DirBad>>}

NextStore ==
    \/ /\ Detached
       /\ \E listing \in StoreListings :
            \E rnd \in [DOMAIN listing -> RandomPoints] :
               InitializeFromFileSystem(listing, rnd)
    \/ /\ Detached
       /\ \E id \in Ids(frames), multi \in BOOLEAN : SelectFrame(id, multi)
    \/ /\ Detached
       /\ SelectAll
    \/ /\ Detached
       /\ ClearSelection
    \/ /\ Detached
       /\ \E path \in Paths, frameData \in Records : DirAdded(path, frameData)
    \/ /\ Detached
       /\ \E path \in Paths : DirRemoved(path)
    \/ /\ Detached
       /\ \E path \in Paths, frameData \in Records : DirChanged(path, frameData)

SpecStore == Init /\ [][NextStore]_vars

-----------------------------------------------------------------------------
(* The canvas driven by the pointer, with the frames a and b (b locked)    *)
(* loaded at mount.  zoomToFit has then set the camera to (-250, -100) at  *)
(* zoom 0.8, and the screen points below are, in world coordinates:        *)
(* (50, 50) inside a; (380, 80) inside b; (200, 100), the e handle of a;   *)
(* (-50, 100), left of a; (250, 300), below both frames.                   *)

GestureListings == {<<DirA, DirB>>}

ScreenPoints == {Point(R(340), R(360)), Point(R(604), R(384)), Point(R(460), R(400)),
                 Point(R(260), R(400)), Point(R(500), R(560))}

NextGesture ==
    \/ /\ Detached
       /\ \E listing \in GestureListings :
            \E rnd \in [DOMAIN listing -> RandomPoints] :
               InitializeFromFileSystem(listing, rnd)
    \/ /\ Detached
       /\ \E screen \in ScreenPoints, modifier \in BOOLEAN : MouseDown(screen, modifier)
    \/ /\ Detached
       /\ \E screen \in ScreenPoints : MouseMove(screen)
    \/ /\ Detached
       /\ \E screen \in ScreenPoints : MouseUp(screen)

SpecGesture == Init /\ [][NextGesture]_vars

-----------------------------------------------------------------------------------------------------------------------------------------------------
(* The camera driven by the zoom commands and the wheel, over the frames   *)
(* loaded at mount                                                         *)

CameraListings == {<<DirA, DirB>>, <<DirA, DirWide>>, <<DirA, DirFar>>}

\* the centre of the canvas and a point to its lower right
WheelPoints == {Point(R(500), R(400)), Point(R(700), R(500))}

NextCamera ==
    \/ /\ Detached
       /\ \E listing \in CameraListings :
            \E rnd \in [DOMAIN listing -> RandomPoints] :
               InitializeFromFileSystem(listing, rnd)
    \/ /\ Detached
       /\ ZoomIn
    \/ /\ Detached
       /\ ZoomOut
    \/ /\ Detached
       /\ ZoomToFit
    \/ /\ Detached
       /\ ResetCamera
    \/ /\ Detached
       /\ \E screen \in WheelPoints, deltaYPositive \in BOOLEAN : Wheel(screen, deltaYPositive)

SpecCamera == Init /\ [][NextCamera]_vars

-----
(* The history driven by deletions, selection and camera changes *)

HistoryListings == {<<DirA>>}

NextHistory ==
    \/ /\ Detached
       /\ \E listing \in HistoryListings :
            \E rnd \in [DOMAIN listing -> RandomPoints] :
               InitializeFromFileSystem(listing, rnd)
    \/ /\ Detached
       /\ DeleteFrames
    \/ /\ Detached
       /\ \E k \in DOMAIN pending : ResumeDelete(k)
    \/ /\ Detached
       /\ \E id \in Ids(frames), multi \in BOOLEAN : SelectFrame(id, multi)
    \/ /\ Detached
       /\ ClearSelection
    \/ /\ Detached
       /\ ResetCamera
    \/ /\ Detached
       /\ SaveHistory
    \/ /\ Detached
       /\ Undo
    \/ /\ Detached
       /\ Redo

SpecHistory == Init /\ [][NextHistory]_vars

-----------------------------------------------------------------------------
(* The store and the backend: frames a and b loaded at mount, the lock     *)
(* toggled in the layer panel, every write succeeding                      *)

NextSync ==
    \/ /\ \E listing \in GestureListings :
            \E rnd \in [DOMAIN listing -> RandomPoints] :
               InitializeFromFileSystem(listing, rnd)
       /\ MountBackend
    \/ /\ \E id \in Ids(frames) : ToggleLock(id)
       /\ Intake
    \/ \E i \in DOMAIN inflight : WriteCompletes(i, TRUE)
    \/ \E path \in events : ChangeNotified(path)

SpecSync == Init /\ [][NextSync]_vars

-----------------------------------------------------------------------------
(* The asynchronous creations of the store: frame a loaded at mount, frames *)
(* added and duplicated while the user selects, undoes and redoes           *)

NextAsync ==
    \/ /\ Detached
       /\ \E listing \in HistoryListings :
            \E rnd \in [DOMAIN listing -> RandomPoints] :
               InitializeFromFileSystem(listing, rnd)
    \/ /\ Detached
       /\ AddFrame
    \/ /\ Detached
       /\ DuplicateFrames
    \/ /\ Detached
       /\ \E k \in DOMAIN pending, ok \in BOOLEAN : ResumeCreate(k, ok)
    \/ /\ Detached
       /\ \E id \in Ids(frames) : SelectFrame(id, FALSE)
    \/ /\ Detached
       /\ Undo
    \/ /\ Detached
       /\ Redo

SpecAsync == Init /\ [][NextAsync]_vars

-----------------------------------------------------------------------------
(* The store and the watcher: frame a loaded at mount and deleted by the    *)
(* user, while outside the application directory b appears, directory a is  *)
(* removed and the record of a is edited                                    *)

\* handleDirectoryChange run for one of these events
Notified ==
    \/ \E path \in {<<"b">>}, frameData \in {RecB} : DirAdded(path, frameData)
    \/ \E path \in {<<"a">>} : DirRemoved(path)
    \/ \E path \in {<<"a">>}, frameData \in {[RecA EXCEPT !.x = R(300)]} :
          DirChanged(path, frameData)

NextWatch ==
    \/ /\ Detached
       /\ \E listing \in HistoryListings :
            \E rnd \in [DOMAIN listing -> RandomPoints] :
               InitializeFromFileSystem(listing, rnd)
    \/ /\ Detached
       /\ \E id \in Ids(frames) : SelectFrame(id, FALSE)
    \/ /\ Detached
       /\ DeleteFrames
    \/ /\ Detached
       /\ \E k \in DOMAIN pending : ResumeDelete(k)
    \/ /\ Detached
       /\ Notified

SpecWatch == Init /\ [][NextWatch]_vars

-----------------------------------------------------------------------------
(* The store and a backend that can fail: frame a loaded at mount, frames   *)
(* added and the lock of a toggled, every creation and every write either   *)
(* succeeding or failing.  The directories of the frames added are not kept *)
(* in files.                                                                *)

NextFailure ==
    \/ /\ \E listing \in HistoryListings :
            \E rnd \in [DOMAIN listing -> RandomPoints] :
               InitializeFromFileSystem(listing, rnd)
       /\ MountBackend
    \/ /\ AddFrame
       /\ Intake
    \/ /\ \E k \in DOMAIN pending, ok \in BOOLEAN : ResumeCreate(k, ok)
       /\ Intake
    \/ /\ \E id \in {<<"a">>} \cap Ids(frames) : ToggleLock(id)
       /\ Intake
    \/ \E i \in DOMAIN inflight, ok \in BOOLEAN : WriteCompletes(i, ok)

SpecFailure == Init /\ [][NextFailure]_vars

-----------------------------------------------------------------------------
(* The life of a directory the application creates: frame a loaded at mount, *)
(* frames added, selected and deleted, every creation succeeding or failing  *)
(* and every deletion succeeding in the backend                              *)

NextLifecycle ==
    \/ /\ \E listing \in HistoryListings :
            \E rnd \in [DOMAIN listing -> RandomPoints] :
               InitializeFromFileSystem(listing, rnd)
       /\ MountBackend
    \/ /\ nextId < MaxIds - 1
       /\ AddFrame
       /\ Detached
    \/ /\ \E id \in Ids(frames) : SelectFrame(id, FALSE)
       /\ Detached
    \/ /\ DeleteFrames
       /\ Detached
    \/ \E k \in DOMAIN pending, ok \in BOOLEAN : ResumeCreate(k, ok) /\ CreateLands(k, ok)
    \/ \E k \in DOMAIN pending : ResumeDelete(k) /\ DeleteLands(k)
    \/ \E path \in added : CreateNotified(path)

SpecLifecycle == Init /\ [][NextLifecycle]_vars

-----------------------------------------------------------------------------
(* Duplication: frames a and b (b locked) loaded at mount, selected one at  *)
(* a time or all together and duplicated, every creation succeeding or     *)
(* failing                                                                  *)

NextDuplicate ==
    \/ /\ Detached
       /\ \E listing \in GestureListings :
            \E rnd \in [DOMAIN listing -> RandomPoints] :
               InitializeFromFileSystem(listing, rnd)
    \/ /\ Detached
       /\ \E id \in Ids(frames) : SelectFrame(id, FALSE)
    \/ /\ Detached
       /\ SelectAll
    \/ /\ Detached
       /\ DuplicateFrames
    \/ /\ Detached
       /\ \E k \in DOMAIN pending, ok \in BOOLEAN : ResumeCreate(k, ok)

SpecDuplicate == Init /\ [][NextDuplicate]_vars

-----------------------------------------------------------------------------
(* Frames drawn with the frame tool: frame a loaded at mount, the tool      *)
(* chosen, and the pointer pressed, moved and released at two points of the *)
(* canvas, every creation succeeding or failing                             *)

CreatePoints == {Point(R(260), R(400)), Point(R(500), R(560))}

NextCreate ==
    \/ /\ Detached
       /\ \E listing \in HistoryListings :
            \E rnd \in [DOMAIN listing -> RandomPoints] :
               InitializeFromFileSystem(listing, rnd)
    \/ /\ Detached
       /\ \E tool \in {"select", "frame"} : SetTool(tool)
    \/ /\ Detached
       /\ \E screen \in CreatePoints : MouseDown(screen, FALSE)
    \/ /\ Detached
       /\ \E screen \in CreatePoints : MouseMove(screen)
    \/ /\ Detached
       /\ \E screen \in CreatePoints : MouseUp(screen)
    \/ /\ Detached
       /\ \E k \in DOMAIN pending, ok \in BOOLEAN : ResumeCreate(k, ok)

SpecCreate == Init /\ [][NextCreate]_vars

-----------------------------------------------------------------------------
(* Resizing: frame a loaded at mount and selected in the layer panel, then  *)
(* one gesture: the pointer pressed, moved and released at the eight        *)
(* handles of the frame as it was loaded and at two more points, given in   *)
(* world coordinates                                                        *)

ResizePoints ==
    ({Point(R(x), R(y)) : x \in {0, 100, 200}, y \in {0, 100, 200}} \ {Point(R(100), R(100))})
    \cup {Point(R(20), R(10)), Point(R(250), R(230))}

\* where the pointer is on the screen when it is over the world point w
ScreenOf(w) == worldToScreen(w.x, w.y, camera, R(CanvasWidth), R(CanvasHeight))

NextResize ==
    \/ /\ Detached
       /\ \E listing \in HistoryListings :
            \E rnd \in [DOMAIN listing -> RandomPoints] :
               InitializeFromFileSystem(listing, rnd)
    \/ /\ Detached
       /\ \E id \in Ids(frames) : SelectFrame(id, FALSE)
    \/ /\ Detached
       /\ gestures = 0
       /\ \E w \in ResizePoints : MouseDown(ScreenOf(w), FALSE)
    \/ /\ Detached
       /\ \E w \in ResizePoints : MouseMove(ScreenOf(w))
    \/ /\ Detached
       /\ \E w \in ResizePoints : MouseUp(ScreenOf(w))

SpecResize == Init /\ [][NextResize]_vars

\* Working directories for the auto layout: frames on top of each other,
\* frames that touch, frames apart, a frame wider than a row, frames that
\* fill more than one row, a directory without frame.json, and a frame drawn
\* at a zoom that leaves it 200.5 wide
LayoutDir(name, x, y, w, h) ==
    DirEntry(name, "ok", MkFrame(name, name, x, y, w, h, FALSE, NoDir))
LayoutListings ==
    {<<DirA, LayoutDir(<<"b">>, R(0), R(0), R(200), R(200))>>,
     <<DirA, LayoutDir(<<"b">>, R(200), R(0), R(200), R(200))>>,
     <<DirA, DirB>>,
     <<DirA, DirC>>,
     <<DirA, LayoutDir(<<"b">>, R(0), R(0), R(0), R(0)),
             LayoutDir(<<"c">>, R(100), R(100), R(1200), R(300))>>,
     <<LayoutDir(<<"a">>, R(0), R(0), R(3000), R(200)),
       LayoutDir(<<"b">>, R(0), R(0), R(200), R(200))>>,
     <<LayoutDir(<<"wide">>, R(0), R(0), R(3000), R(200)), DirA,
       LayoutDir(<<"b">>, R(100), R(100), R(200), R(200))>>,
     <<LayoutDir(<<"wide">>, R(0), R(0), R(200), R(100)),
       LayoutDir(<<"c">>, R(0), R(0), R(1000), R(200)),
       LayoutDir(<<"b">>, R(0), R(0), R(1000), R(300)),
       LayoutDir(<<"a">>, R(0), R(0), R(1000), R(200))>>,
     <<LayoutDir(<<"a">>, R(0), R(0), <<401, 2>>, R(200)),
       LayoutDir(<<"b">>, R(0), R(0), R(200), R(200))>>}

NextLayout ==
    \/ /\ Detached
       /\ \E listing \in LayoutListings :
            \E rnd \in [DOMAIN listing -> RandomPoints] :
               InitializeFromFileSystem(listing, rnd)
    \/ /\ Detached
       /\ \E id \in Ids(frames), multi \in BOOLEAN : SelectFrame(id, multi)
    \/ /\ Detached
       /\ ClearSelection
    \/ /\ Detached
       /\ ZoomIn

SpecLayout == Init /\ [][NextLayout]_vars

\* World points of pointer events on frames a and b: inside a, inside b, on
\* the empty canvas, and the 'w' handle of a once a has been dragged from
\* the first point to the second, a point inside both frames
PointerPoints == {Point(R(50), R(50)), Point(R(380), R(80)), Point(R(-50), R(100)),
                  Point(R(330), R(130))}

NextPointer ==
    \/ /\ Detached
       /\ \E listing \in GestureListings :
            \E rnd \in [DOMAIN listing -> RandomPoints] :
               InitializeFromFileSystem(listing, rnd)
    \/ /\ Detached
       /\ \E w \in PointerPoints, modifier \in BOOLEAN : MouseDown(ScreenOf(w), modifier)
    \/ /\ Detached
       /\ \E w \in PointerPoints : MouseMove(ScreenOf(w))
    \/ /\ Detached
       /\ \E w \in PointerPoints : MouseUp(ScreenOf(w))

SpecPointer == Init /\ [][NextPointer]_vars

\* Pointer positions on the canvas showing frame a alone: two points inside
\* the frame and one on the empty canvas to its lower right
ToolPoints == {Point(R(460), R(360)), Point(R(540), R(416)), Point(R(660), R(560))}

\* the pointer handlers together with the keys that change the tool and the
\* space bar, which the window receives at any time
NextTool ==
    \/ /\ Detached
       /\ \E listing \in HistoryListings :
            \E rnd \in [DOMAIN listing -> RandomPoints] :
               InitializeFromFileSystem(listing, rnd)
    \/ /\ Detached
       /\ \E tool \in {"select", "frame", "pan"} : SetTool(tool)
    \/ /\ Detached
       /\ \E pressed \in BOOLEAN : SetSpacePressed(pressed)
    \/ /\ Detached
       /\ gestures = 0
       /\ \E screen \in ToolPoints : MouseDown(screen, FALSE)
    \/ /\ Detached
       /\ \E screen \in ToolPoints : MouseMove(screen)
    \/ /\ Detached
       /\ \E screen \in ToolPoints : MouseUp(screen)
    \/ /\ Detached
       /\ \E k \in DOMAIN pending, ok \in BOOLEAN : ResumeCreate(k, ok)

SpecTool == Init /\ [][NextTool]_vars

\* Pointer positions of one gesture with the frame tool: from the first
\* point the second is 300 world units to the right and 200 down, the third
\* exactly 10 to the right and 200 down, the fourth 20 to the right and 20 down
ThresholdPoints == {Point(R(260), R(400)), Point(R(500), R(560)), Point(R(268), R(560)),
                    Point(R(276), R(416))}

NextThreshold ==
    \/ /\ Detached
       /\ \E listing \in HistoryListings :
            \E rnd \in [DOMAIN listing -> RandomPoints] :
               InitializeFromFileSystem(listing, rnd)
    \/ /\ Detached
       /\ \E tool \in {"select", "frame"} : SetTool(tool)
    \/ /\ Detached
       /\ gestures = 0
       /\ \E screen \in ThresholdPoints : MouseDown(screen, FALSE)
    \/ /\ Detached
       /\ \E screen \in ThresholdPoints : MouseMove(screen)
    \/ /\ Detached
       /\ \E screen \in ThresholdPoints : MouseUp(screen)
    \/ /\ Detached
       /\ \E k \in DOMAIN pending, ok \in BOOLEAN : ResumeCreate(k, ok)

SpecThreshold == Init /\ [][NextThreshold]_vars

\* Frames a and c, one below the other, and the locked frame b; pointer
\* events inside each of them, with and without a modifier key, and snap to
\* grid switched on and off
MoveListings == {<<DirA, DirB, LayoutDir(<<"c">>, R(0), R(300), R(200), R(200))>>}
MovePoints == {Point(R(50), R(50)), Point(R(380), R(80)), Point(R(50), R(350))}

NextMove ==
    \/ /\ Detached
       /\ \E listing \in MoveListings :
            \E rnd \in [DOMAIN listing -> RandomPoints] :
               InitializeFromFileSystem(listing, rnd)
    \/ /\ Detached
       /\ ToggleSnapToGrid
    \/ /\ Detached
       /\ \E w \in MovePoints, modifier \in BOOLEAN : MouseDown(ScreenOf(w), modifier)
    \/ /\ Detached
       /\ \E w \in MovePoints : MouseMove(ScreenOf(w))
    \/ /\ Detached
       /\ \E w \in MovePoints : MouseUp(ScreenOf(w))

SpecMove == Init /\ [][NextMove]_vars

\* Snapshots taken, undone and redone between changes of the live state: the
\* lock of frame a toggled by updateFrame, frame a selected, the camera
\* reset, and the record of a edited outside the application
\* pointer positions for a resize under snap-to-grid: the north-west and the
\* west handle of frame a, and two points a few world units off the corner
EdgePoints ==
    {Point(R(0), R(0)), Point(R(0), R(100)), Point(R(4), R(4)), Point(R(-4), R(-4))}

NextEdge ==
    \/ /\ Detached
       /\ \E listing \in HistoryListings :
            \E rnd \in [DOMAIN listing -> RandomPoints] :
               InitializeFromFileSystem(listing, rnd)
    \/ /\ Detached
       /\ \E id \in Ids(frames) : SelectFrame(id, FALSE)
    \/ /\ Detached
       /\ ToggleSnapToGrid
    \/ /\ Detached
       /\ gestures = 0
       /\ \E w \in EdgePoints : MouseDown(ScreenOf(w), FALSE)
    \/ /\ Detached
       /\ \E w \in EdgePoints : MouseMove(ScreenOf(w))
    \/ /\ Detached
       /\ \E w \in EdgePoints : MouseUp(ScreenOf(w))

SpecEdge == Init /\ [][NextEdge]_vars

NextSnapshot ==
    \/ /\ Detached
       /\ \E listing \in HistoryListings :
            \E rnd \in [DOMAIN listing -> RandomPoints] :
               InitializeFromFileSystem(listing, rnd)
    \/ /\ Detached
       /\ \E id \in Ids(frames) : ToggleLock(id)
    \/ /\ Detached
       /\ \E id \in Ids(frames) : SelectFrame(id, FALSE)
    \/ /\ Detached
       /\ ResetCamera
    \/ /\ Detached
       /\ \E path \in {<<"a">>}, frameData \in {[RecA EXCEPT !.x = R(300)]} :
             DirChanged(path, frameData)
    \/ /\ Detached
       /\ SaveHistory
    \/ /\ Detached
       /\ Undo
    \/ /\ Detached
       /\ Redo

SpecSnapshot == Init /\ [][NextSnapshot]_vars

-----------------------------------------------------------------------------------------------------------------------------------------------------
(* Properties of the collection, the selection and the camera *)

\* C1: in every reachable state of the store every id in selectedIds is the
\* id of a frame in frames, in particular after a 'removed' notification for
\* the directory of a selected frame
SelectionValid == SeqToSet(selectedIds) \subseteq Ids(frames)

\* C2: in every reachable state no two frames of the collection have the
\* same id, in particular after the load at mount and after a 'changed'
\* notification
UniqueIds ==
    \A i, j \in DOMAIN frames : frames[i].id = frames[j].id => i = j

\* C3: whenever no pointer gesture is in progress every frame has
\* width >= 0 and height >= 0, in particular after a resize gesture that
\* dragged a handle past the opposite edge
NonNegativeExtentsWhenIdle ==
    ~dragState.isDragging =>
        \A k \in DOMAIN frames : /\ RLe(R(0), frames[k].width)
                                 /\ RLe(R(0), frames[k].height)

\* C4: in every reachable state camera.zoom is positive and within
\* [0.1, 10], zoomToFit included
ZoomInRange ==
    /\ RLt(R(0), camera.zoom)
    /\ RLe(MinZoom, camera.zoom)
    /\ RLe(camera.zoom, MaxZoom)

Geometry(f) == <<f.x, f.y, f.width, f.height>>

-----
(* Properties of the history *)

\* a step in which saveHistory() ran, on its own or as the last statement of
\* deleteFrames (directly, or after its last await)
SaveHistoryCalled ==
    \/ SaveHistory
    \/ \E k \in DOMAIN pending : ResumeDelete(k) /\ Len(pending[k].dirs) = 1
    \/ DeleteFrames /\ pending' = pending

\* history.slice(0, historyIndex + 1) followed by the snapshot of the state
\* the step leaves
Truncated == SubSeq(history, 1, historyIndex + 1)
Appended == Append(Truncated, Snapshot(frames', selectedIds', camera'))

\* the live state is the snapshot under the cursor and the cursor is on the
\* last entry: the state after mutations each followed by saveHistory()
AtSaved(live, h, idx) == idx >= 0 /\ idx = Len(h) - 1 /\ live = h[idx + 1]

\* C6: the history never holds more than maxHistory snapshots; after more
\* than maxHistory saveHistory() calls in a row it holds exactly maxHistory,
\* maxHistory - 1 undo() calls from there land on the oldest snapshot
\* (historyIndex 0), and a further undo() changes nothing.
HistoryBounded ==
    /\ [](/\ Len(history) <= maxHistory
          /\ (saveRun > maxHistory /\ undoRun = 0) =>
                (Len(history) = maxHistory /\ historyIndex = maxHistory - 1)
          /\ (saveRun > maxHistory /\ undoRun >= maxHistory - 1) =>
                (Len(history) = maxHistory /\ historyIndex = 0))
    /\ [][(Undo /\ saveRun > maxHistory /\ undoRun >= maxHistory - 1) =>
            UNCHANGED <<frames, selectedIds, camera, history, historyIndex>>]_vars

\* more than maxHistory saves in a row, then maxHistory - 1 undos
HistoryBoundedWitness ==
    saveRun > maxHistory /\ undoRun = maxHistory - 1 /\ historyIndex = 0

\* C7: from a state in which every mutation was followed by saveHistory(),
\* undo() makes frames, selection and camera equal to the snapshot before the
\* latest one, and a redo() right after that undo() makes them equal to what
\* they were before the undo().
UndoRedoInverse ==
    [][/\ (Undo /\ AtSaved(Live, history, historyIndex) /\ historyIndex > 0) =>
            Live' = history[historyIndex]
       /\ (Redo /\ preUndo # Null
                /\ AtSaved(preUndo[1].live, history, preUndo[1].index)) =>
            Live' = preUndo[1].live]_vars

\* an undo() from such a state that went back to a different earlier snapshot
UndoRedoInverseWitness ==
    /\ preUndo # Null
    /\ AtSaved(preUndo[1].live, history, preUndo[1].index)
    /\ preUndo[1].index > 0
    /\ Live = history[preUndo[1].index]
    /\ Live.frames # preUndo[1].live.frames
    /\ Live.selectedIds # preUndo[1].live.selectedIds

\* C8: a saveHistory() call, after appending the snapshot, either evicts the
\* oldest entry and leaves historyIndex unchanged, or evicts nothing and
\* increases historyIndex by one; never both, never neither.
SaveEvictsOrAdvances ==
    [][SaveHistoryCalled =>
        LET evicted == history' = Tail(Appended)
            kept == history' = Appended
            advanced == historyIndex' = historyIndex + 1
            same == historyIndex' = historyIndex
        IN  /\ evicted \/ kept
            /\ advanced \/ same
            /\ evicted <=> same
            /\ kept <=> advanced]_vars

\* a saveHistory() on a full history has just evicted the oldest entry
SaveEvictsOrAdvancesWitness ==
    saveRun > maxHistory /\ Len(history) = maxHistory /\ historyIndex = maxHistory - 1

\* C9: saveHistory() discards every entry after the cursor, keeps the entries
\* up to the cursor in order (minus at most the evicted oldest one) and leaves
\* the cursor on the appended last entry, so that a redo() right after it
\* changes nothing; also when it is called after undo().
SaveStartsNewTimeline ==
    [][SaveHistoryCalled =>
        /\ historyIndex' = Len(history') - 1
        /\ history'[Len(history')] = Snapshot(frames', selectedIds', camera')
        /\ \/ SubSeq(history', 1, Len(history') - 1) = Truncated
           \/ /\ Truncated # <<>>
              /\ SubSeq(history', 1, Len(history') - 1) = Tail(Truncated)
        /\ LET r == redoResult(history', historyIndex', Live')
           IN  /\ r.historyIndex = historyIndex'
               /\ r.frames = frames'
               /\ r.selectedIds = selectedIds'
               /\ r.camera = camera']_vars

\* a saveHistory() called after undo() has just discarded the entries after the cursor
SaveStartsNewTimelineWitness ==
    redoCut > 0 /\ historyIndex = Len(history) - 1 /\ Len(history) > 1

\* C10: undo() and redo() never change the history list and move the cursor
\* by exactly one position; undo() with historyIndex <= 0 and redo() with
\* historyIndex = history.length - 1 change nothing at all.
UndoRedoMoveCursorOnly ==
    [][/\ Undo =>
            /\ history' = history
            /\ IF historyIndex > 0
               THEN historyIndex' = historyIndex - 1
               ELSE UNCHANGED <<frames, selectedIds, camera, historyIndex>>
       /\ Redo =>
            /\ history' = history
            /\ IF historyIndex < Len(history) - 1
               THEN historyIndex' = historyIndex + 1
               ELSE UNCHANGED <<frames, selectedIds, camera, historyIndex>>]_vars

\* undo() was called on a single snapshot whose state is not the live one
UndoRedoMoveCursorOnlyWitness ==
    /\ preUndo # Null
    /\ preUndo[1].index = 0
    /\ Len(history) = 1
    /\ Live # history[1]
    /\ Live = preUndo[1].live

-----------------------------------------------------------------------------
(* Properties of the asynchronous operations and of persistence *)

\* C11: between the in-memory mutation of addFrame, deleteFrame, deleteFrames
\* or duplicateFrames and its history push no other operation takes effect:
\* while the operation waits, a step that is not its own leaves the frames,
\* the selection, the camera and the history as they are, so the snapshot
\* pushed is the state the mutation produced.
MutationPushedAtOnce ==
    [][(pending # <<>> /\ pending' = pending) =>
          UNCHANGED <<frames, selectedIds, camera, history, historyIndex>>]_vars

\* the records of the frames, their metadata left out
RecordsOf(fs) == {frameJson(fs[i]) : i \in DOMAIN fs}

\* C12: every operation that changes the collection for the user asks the
\* backend to persist the change: for each frame it adds or changes a create
\* or a write of its record is issued, or queued in its continuation, and
\* for each frame with a directory that it removes, a delete of the directory.
ChangesArePersisted ==
    [][Mounted =>
          /\ \A rec \in RecordsOf(frames') \ RecordsOf(frames) :
                \/ \E j \in DOMAIN requests' :
                      /\ requests'[j].kind \in {"create", "write"}
                      /\ requests'[j].data = <<rec>>
                \/ \E k \in DOMAIN pending' : \E j \in DOMAIN pending'[k].newFrames :
                      frameJson(pending'[k].newFrames[j]) = rec
          /\ \A i \in DOMAIN frames :
                (frames[i].dirPath # NoDir /\ frames[i].id \notin Ids(frames')) =>
                   \/ \E j \in DOMAIN requests' :
                         /\ requests'[j].kind = "delete"
                         /\ requests'[j].dir = frames[i].dirPath
                   \/ \E k \in DOMAIN pending' : \E j \in DOMAIN pending'[k].dirs :
                         pending'[k].dirs[j] = frames[i].dirPath]_vars

\* C13: a load leaves out the directories whose record is malformed and
\* loads every other directory of the listing, the ones without a record with
\* the default frame.
LoadSkipsMalformedOnly ==
    [][\A listing \in StoreListings : \A rnd \in [DOMAIN listing -> RandomPoints] :
          InitializeFromFileSystem(listing, rnd) =>
             \A i \in DOMAIN listing :
                IF listing[i].kind = "malformed"
                THEN \A j \in DOMAIN frames' : frames'[j].dirPath # listing[i].name
                ELSE \E j \in DOMAIN frames' : frames'[j].dirPath = listing[i].name]_vars

\* the snapshots of h with the directory of the frame id left out
WithoutDirOf(h, id) ==
    [n \in DOMAIN h |->
        [h[n] EXCEPT !.frames = [i \in DOMAIN h[n].frames |->
            IF h[n].frames[i].id = id THEN frameJson(h[n].frames[i])
            ELSE h[n].frames[i]]]]

DeleteOfMissingIsNoOp ==
    [][(DeleteFrames /\ SeqToSet(selectedIds) \cap Ids(frames) = {}) =>
          /\ UNCHANGED <<frames, selectedIds, camera, history, historyIndex>>
          /\ requests' = <<>>]_vars

\* C16: handling an 'added', a 'removed' or a 'changed' notification of the
\* watcher leaves history and historyIndex as they are.
NotificationsKeepHistory ==
    [][Notified => UNCHANGED <<history, historyIndex>>]_vars

\* frame b came in by a notification after the last snapshot was pushed
NotificationsKeepHistoryWitness ==
    /\ historyIndex >= 0
    /\ <<"b">> \in Ids(frames)
    /\ <<"b">> \notin Ids(history[historyIndex + 1].frames)

\* C17: once every write issued for a frame has completed, the record its
\* directory holds is the latest in-memory state of the frame, whatever the
\* order the writes completed in.
LastWriteWins ==
    inflight = <<>> =>
        \A i \in DOMAIN frames :
            frames[i].dirPath \in DOMAIN files =>
                files[frames[i].dirPath] = frameJson(frames[i])

\* C18: the 'changed' notification the watcher raises for a write of the
\* application itself is ignored: delivering it leaves the frames as they are.
OwnWriteIgnored ==
    [][(\E path \in events : ChangeNotified(path)) => frames' = frames]_vars

\* C19: addFrame appends exactly one frame, with a fresh id and a width and
\* a height that are not negative, leaves the frames that were there and the
\* selection as they are, and pushes exactly one snapshot, which holds the
\* new frame.
AddFrameAddsOne ==
    [][/\ AddFrame =>
             /\ Len(frames') = Len(frames) + 1
             /\ SubSeq(frames', 1, Len(frames)) = frames
             /\ frames'[Len(frames')].id \notin Ids(frames)
             /\ RLe(R(0), frames'[Len(frames')].width)
             /\ RLe(R(0), frames'[Len(frames')].height)
             /\ selectedIds' = selectedIds
       /\ \A k \in DOMAIN pending :
             (pending[k].op = "addFrame" /\ \E ok \in BOOLEAN : ResumeCreate(k, ok)) =>
                /\ [history |-> history', historyIndex |-> historyIndex']
                      = saveHistoryResult(history, historyIndex, history'[Len(history')])
                /\ Head(pending[k].newFrames).id \in Ids(history'[Len(history')].frames)]_vars

\* C20: deleteFrames removes exactly the frames whose id it is given, the
\* others keeping their content and their order, removes exactly these ids
\* from the selection, and pushes one snapshot of the state that results,
\* in which no frame of a directory it has deleted is left.
DeleteRemovesGiven ==
    [][/\ DeleteFrames =>
             /\ frames' = Filter(frames, {i \in DOMAIN frames :
                                            frames[i].id \notin SeqToSet(selectedIds)})
             /\ selectedIds' = Filter(selectedIds, {i \in DOMAIN selectedIds :
                                            selectedIds[i] \notin SeqToSet(selectedIds)})
       /\ \A k \in DOMAIN pending :
             (Len(pending[k].dirs) = 1 /\ ResumeDelete(k)) =>
                /\ [history |-> history', historyIndex |-> historyIndex']
                      = saveHistoryResult(history, historyIndex, history'[Len(history')])
                /\ \A j \in DOMAIN history'[Len(history')].frames :
                      history'[Len(history')].frames[j].dirPath # pending[k].dirs[1]]_vars


\* C21: every frame removed by deleteFrame / deleteFrames whose directory
\* exists, or is being created for addFrame / duplicateFrames, gets a delete
\* request for that directory (issued by the step or queued in its
\* continuation); once no operation waits on the backend and no 'added'
\* notification is outstanding, every directory the backend holds belongs to a
\* frame of the collection; and the 'added' notification of a directory the
\* application created adds no frame.
DeletedFramesLeaveNothing ==
    /\ [][DeleteFrames =>
            \A i \in DOMAIN frames :
               frames[i].id \in SeqToSet(selectedIds)
               /\ (frames[i].dirPath # NoDir
                   \/ \E k \in DOMAIN pending : \E j \in DOMAIN pending[k].newFrames :
                         pending[k].newFrames[j].id = frames[i].id)
               => \E dir \in {IF frames[i].dirPath # NoDir THEN frames[i].dirPath
                              ELSE getFrameDirectoryName(frames[i].name)} :
                     \/ \E r \in DOMAIN requests' :
                           requests'[r].kind = "delete" /\ requests'[r].dir = dir
                     \/ \E k \in DOMAIN pending' : \E j \in DOMAIN pending'[k].dirs :
                           pending'[k].dirs[j] = dir]_vars
    /\ [](pending = <<>> /\ added = {} =>
            \A dir \in DOMAIN files : \E i \in DOMAIN frames : frames[i].dirPath = dir)
    /\ [][\A path \in added : CreateNotified(path) => frames' = frames]_vars


\* the fields of a frame that a copy takes over from its source
Properties(f) == [width |-> f.width, height |-> f.height, color |-> f.color,
                  rotation |-> f.rotation, locked |-> f.locked,
                  visible |-> f.visible, opacity |-> f.opacity]

\* C22: duplicateFrames over k matching frames appends k frames after the
\* frames that were there, which stay as they are; each copy has a fresh id,
\* its source's size and properties, its source's position moved by (20, 20),
\* a name that extends its source's name, and no directory; the selection
\* becomes the ids of the copies; and the call pushes no snapshot before its
\* last creation has returned and exactly one then.
DuplicateAddsCopies ==
    [][/\ DuplicateFrames =>
             \E src \in {getSelectedFrames} :
                /\ Len(frames') = Len(frames) + Len(src)
                /\ SubSeq(frames', 1, Len(frames)) = frames
                /\ \A j \in DOMAIN src :
                      \E copy \in {frames'[Len(frames) + j]} :
                         /\ copy.id \notin Ids(frames)
                         /\ \A i \in DOMAIN src : i # j => frames'[Len(frames) + i].id # copy.id
                         /\ Properties(copy) = Properties(src[j])
                         /\ copy.x = RAdd(src[j].x, R(20))
                         /\ copy.y = RAdd(src[j].y, R(20))
                         /\ Len(copy.name) > Len(src[j].name)
                         /\ SubSeq(copy.name, 1, Len(src[j].name)) = src[j].name
                         /\ copy.dirPath = NoDir
                /\ selectedIds' = [j \in DOMAIN src |-> frames'[Len(frames) + j].id]
                /\ UNCHANGED <<history, historyIndex>>
       /\ \A k \in DOMAIN pending :
             (pending[k].op = "duplicateFrames" /\ \E ok \in BOOLEAN : ResumeCreate(k, ok)) =>
                IF Len(pending[k].newFrames) > 1
                THEN UNCHANGED <<history, historyIndex>>
                ELSE /\ [history |-> history', historyIndex |-> historyIndex']
                           = saveHistoryResult(history, historyIndex, history'[Len(history')])
                     /\ history'[Len(history')] = Snapshot(frames', selectedIds', camera')]_vars

\* two frames have been duplicated in one call, and its snapshot is pushed
DuplicateAddsCopiesWitness ==
    /\ pending = <<>>
    /\ historyIndex = 0
    /\ Len(frames) = 4
    /\ frames[3].name = <<"a", " ", "Copy">>
    /\ frames[4].name = <<"b", " ", "Copy">>
    /\ frames[4].locked
    /\ Len(selectedIds) = 2
    /\ Len(history[1].frames) = 4


\* no id occurs twice in the sequence
NoRepeat(sel) == \A i, j \in DOMAIN sel : sel[i] = sel[j] => i = j

\* C23: selectFrame(id, false) makes the selection <<id>>; selectFrame(id,
\* true) adds id when it is not selected and removes it when it is, the other
\* selected ids staying in place, so that a second call with the same id gives
\* back the set of selected ids there was; and the selection it leaves holds
\* no id twice.
SelectFrameToggles ==
    [][\A id \in Ids(frames) :
          /\ SelectFrame(id, FALSE) => selectedIds' = <<id>>
          /\ SelectFrame(id, TRUE) =>
                /\ id \in SeqToSet(selectedIds') <=> id \notin SeqToSet(selectedIds)
                /\ Filter(selectedIds', {i \in DOMAIN selectedIds' : selectedIds'[i] # id})
                      = Filter(selectedIds, {i \in DOMAIN selectedIds : selectedIds[i] # id})
                /\ SeqToSet(selectFrameResult(selectedIds', id, TRUE)) = SeqToSet(selectedIds)
          /\ (\E multi \in BOOLEAN : SelectFrame(id, multi)) => NoRepeat(selectedIds')]_vars


\* the ids of the frames whose bounds and the box with the corners (ax, ay)
\* and (bx, by) have a point in common, an edge or a corner included
TouchedBy(fs, ax, ay, bx, by) ==
    LET hit == Filter(fs, {i \in DOMAIN fs :
                   \E b \in {getFrameBounds(fs[i])} :
                      /\ RLe(RMin(ax, bx), RAdd(b.x, b.width))
                      /\ RLe(b.x, RMax(ax, bx))
                      /\ RLe(RMin(ay, by), RAdd(b.y, b.height))
                      /\ RLe(b.y, RMax(ay, by))})
    IN  [i \in DOMAIN hit |-> hit[i].id]

\* C24: while a marquee is open under the select tool (a pointer-down on
\* empty canvas has set the box, and no frame or handle is dragged), a
\* pointer-move to any position puts the far corner of the box at the
\* pointer's world position and makes the selection the frames whose bounds
\* the box touches.
MarqueeSelectsTouched ==
    (/\ effectiveTool = "select"
     /\ selectionBox # Null
     /\ dragState.dragOffset = Null
     /\ dragState.resizeHandle = "none")
    => \A screen \in ScreenPoints :
          ENABLED (/\ MouseMove(screen)
                   /\ selectionBox' = <<[selectionBox[1] EXCEPT !.endX = WorldOf(screen).x,
                                                                 !.endY = WorldOf(screen).y]>>
                   /\ selectedIds' = TouchedBy(frames, selectionBox[1].startX,
                                               selectionBox[1].startY,
                                               WorldOf(screen).x, WorldOf(screen).y))


\* C25: a drag with the frame tool between the world points A (pointer-down)
\* and B (pointer-up), snap disabled, adds a frame exactly when the points are
\* more than 10 apart on both axes, and the frame added is the last one, with
\* x = min(A.x, B.x), y = min(A.y, B.y), width = |A.x - B.x| and height =
\* |A.y - B.y|: the same frame whichever of the two points the drag starts at.
DragDirectionIrrelevant ==
    [][\A screen \in CreatePoints :
          (/\ effectiveTool = "frame"
           /\ dragState.startPoint # Null
           /\ ~snapToGrid
           /\ MouseUp(screen))
          => \E A \in {dragState.startPoint[1]}, B \in {WorldOf(screen)} :
                IF RLt(R(10), RAbs(RSub(A.x, B.x))) /\ RLt(R(10), RAbs(RSub(A.y, B.y)))
                THEN /\ Len(frames') = Len(frames) + 1
                     /\ SubSeq(frames', 1, Len(frames)) = frames
                     /\ Geometry(frames'[Len(frames')])
                           = <<RMin(A.x, B.x), RMin(A.y, B.y),
                               RAbs(RSub(A.x, B.x)), RAbs(RSub(A.y, B.y))>>
                ELSE frames' = frames]_vars

\* a frame has been drawn between the two points, a drag is under way from
\* its lower right corner, and releasing the pointer at its upper left corner
\* adds a frame with the same x, y, width and height
DragDirectionIrrelevantWitness ==
    /\ Len(frames) = 2
    /\ frames[2].id = NanoId(1)
    /\ RLt(R(0), frames[2].width)
    /\ pending = <<>>
    /\ effectiveTool = "frame"
    /\ ~snapToGrid
    /\ dragState.isDragging
    /\ dragState.startPoint = <<Point(RAdd(frames[2].x, frames[2].width),
                                      RAdd(frames[2].y, frames[2].height))>>
    /\ \E screen \in CreatePoints :
          /\ WorldOf(screen) = Point(frames[2].x, frames[2].y)
          /\ ENABLED (/\ MouseUp(screen)
                      /\ Len(frames') = 3
                      /\ Geometry(frames'[3]) = Geometry(frames[2]))


\* x, y, width and height after the edges a handle names have followed the
\* pointer by (dx, dy): the east edge adds dx to the width, the west edge adds
\* dx to x and takes it from the width, the south edge adds dy to the height,
\* the north edge adds dy to y and takes it from the height
Resized(g, handle, dx, dy) ==
    <<IF handle \in {"nw", "w", "sw"} THEN RAdd(g[1], dx) ELSE g[1],
      IF handle \in {"nw", "n", "ne"} THEN RAdd(g[2], dy) ELSE g[2],
      IF handle \in {"ne", "e", "se"} THEN RAdd(g[3], dx)
      ELSE IF handle \in {"nw", "w", "sw"} THEN RSub(g[3], dx) ELSE g[3],
      IF handle \in {"sw", "s", "se"} THEN RAdd(g[4], dy)
      ELSE IF handle \in {"nw", "n", "ne"} THEN RSub(g[4], dy) ELSE g[4]>>

\* the world position of a handle of frame a as it was loaded
LoadedHandle(handle) ==
    Point(IF handle \in {"nw", "w", "sw"} THEN RecA.x
          ELSE IF handle \in {"n", "s"} THEN RAdd(RecA.x, RDiv(RecA.width, R(2)))
          ELSE RAdd(RecA.x, RecA.width),
          IF handle \in {"nw", "n", "ne"} THEN RecA.y
          ELSE IF handle \in {"w", "e"} THEN RAdd(RecA.y, RDiv(RecA.height, R(2)))
          ELSE RAdd(RecA.y, RecA.height))

\* C26: in a resize gesture on one selected unlocked frame, snap disabled,
\* every pointer-move changes x, y, width and height by the pointer's delta
\* since the last event on exactly the edges the handle names, and nothing
\* else of the frame; so during the first gesture, started on a handle of the
\* frame as it was loaded, the frame is the loaded one resized by the
\* pointer's total delta since the pointer-down, however many moves brought
\* it there.
ResizeFollowsPointer ==
    /\ [][\A w \in ResizePoints :
            (/\ effectiveTool = "select"
             /\ dragState.isDragging
             /\ dragState.startPoint # Null
             /\ dragState.resizeHandle # "none"
             /\ ~snapToGrid
             /\ Len(selectedIds) = 1
             /\ IndexOfId(frames, selectedIds[1]) # 0
             /\ ~frames[IndexOfId(frames, selectedIds[1])].locked
             /\ MouseMove(ScreenOf(w)))
            => \E k \in {IndexOfId(frames, selectedIds[1])} :
                  /\ Geometry(frames'[k])
                        = Resized(Geometry(frames[k]), dragState.resizeHandle,
                                  RSub(w.x, dragState.startPoint[1].x),
                                  RSub(w.y, dragState.startPoint[1].y))
                  /\ frames' = [frames EXCEPT ![k].x = frames'[k].x,
                                              ![k].y = frames'[k].y,
                                              ![k].width = frames'[k].width,
                                              ![k].height = frames'[k].height]]_vars
    /\ [][(/\ gestures' = 1
           /\ dragState'.isDragging
           /\ dragState'.resizeHandle # "none")
          => /\ Len(frames') = 1
             /\ Geometry(frames'[1])
                   = Resized(Geometry(RecA), dragState'.resizeHandle,
                             RSub(dragState'.startPoint[1].x,
                                  LoadedHandle(dragState'.resizeHandle).x),
                             RSub(dragState'.startPoint[1].y,
                                  LoadedHandle(dragState'.resizeHandle).y))]_vars

\* the nw handle of the frame loaded at (0, 0) with the extents (200, 200) has
\* been dragged by (20, 10)
ResizeFollowsPointerWitness ==
    /\ gestures = 1
    /\ dragState.isDragging
    /\ dragState.resizeHandle = "nw"
    /\ dragState.startPoint = <<Point(R(20), R(10))>>
    /\ Len(frames) = 1
    /\ Geometry(frames[1]) = <<R(20), R(10), R(180), R(190)>>


TransformPoints == {Point(R(0), R(0)), Point(R(-250), R(40)), Point(<<1, 3>>, <<-7, 2>>),
                    Point(R(200), R(100))}
ViewportSizes == {Point(R(CanvasWidth), R(CanvasHeight)), Point(R(333), R(1))}

\* C28: under every camera with a zoom above zero, for every world point p and
\* canvas size s, worldToScreen(p) is (p + camera translation) * zoom + s / 2
\* and screenToWorld takes that screen point back to p.
ScreenToWorldInverts ==
    RLt(R(0), camera.zoom) =>
       \A p \in TransformPoints, s \in ViewportSizes :
          \E v \in {worldToScreen(p.x, p.y, camera, s.x, s.y)} :
             /\ v.x = RAdd(RMul(RAdd(p.x, camera.x), camera.zoom), RDiv(s.x, R(2)))
             /\ v.y = RAdd(RMul(RAdd(p.y, camera.y), camera.zoom), RDiv(s.y, R(2)))
             /\ screenToWorld(v.x, v.y, camera, s.x, s.y) = p

\* a camera that is moved and scaled by a zoom that is not a whole number
\* takes a world point to another screen point and back
ScreenToWorldInvertsWitness ==
    /\ camera.zoom = <<4, 101>>
    /\ camera.x # R(0)
    /\ \E p \in TransformPoints, s \in ViewportSizes :
          \E v \in {worldToScreen(p.x, p.y, camera, s.x, s.y)} :
             /\ v # p
             /\ v # Point(RDiv(s.x, R(2)), RDiv(s.y, R(2)))
             /\ screenToWorld(v.x, v.y, camera, s.x, s.y) = p


\* C29: for every frame f, normalizeFrame(f) has non-negative width and
\* height, its x is f.x + f.width when f.width is negative and f.x otherwise
\* (likewise y with height), its width and height are the absolute values of
\* f's, every other field is f's, and normalizing it again changes nothing.
NormalizeFrameIdempotent ==
    \A i \in DOMAIN frames :
       \E f \in {frames[i]} : \E n \in {normalizeFrame(f)} :
          /\ RLe(R(0), n.width)
          /\ RLe(R(0), n.height)
          /\ n.x = IF RLt(f.width, R(0)) THEN RAdd(f.x, f.width) ELSE f.x
          /\ n.y = IF RLt(f.height, R(0)) THEN RAdd(f.y, f.height) ELSE f.y
          /\ n.width = RAbs(f.width)
          /\ n.height = RAbs(f.height)
          /\ [n EXCEPT !.x = f.x, !.y = f.y, !.width = f.width, !.height = f.height] = f
          /\ normalizeFrame(n) = n

\* a resize has turned a frame inside out in both directions, and normalizing
\* it moves its corner
NormalizeFrameIdempotentWitness ==
    \E i \in DOMAIN frames :
       /\ RLt(frames[i].width, R(0))
       /\ RLt(frames[i].height, R(0))
       /\ normalizeFrame(frames[i]).x # frames[i].x
       /\ normalizeFrame(frames[i]).y # frames[i].y
       /\ frames[i].dirPath # Null


\* two rectangles with a point in common, a point of their borders included
RectsTouch(a, b) ==
    /\ RLe(a.x, RAdd(b.x, b.width))
    /\ RLe(b.x, RAdd(a.x, a.width))
    /\ RLe(a.y, RAdd(b.y, b.height))
    /\ RLe(b.y, RAdd(a.y, a.height))
AnyTouch(fs) == \E i, j \in DOMAIN fs : i # j /\ RectsTouch(fs[i], fs[j])
\* frame j is the next frame to the right of frame i in the row of frame i
NextInRow(fs, i, j) ==
    /\ fs[i].y = fs[j].y
    /\ RLt(fs[i].x, fs[j].x)
    /\ ~ \E k \in DOMAIN fs :
            fs[k].y = fs[i].y /\ RLt(fs[i].x, fs[k].x) /\ RLt(fs[k].x, fs[j].x)

\* C30: a load whose frames (none of a negative size) overlap or touch
\* leaves a collection in which no two frames overlap or touch and in which
\* each frame is AUTO_LAYOUT_GAP to the right of the frame before it in its
\* row; a load whose frames are apart leaves every frame where it was read.
LoadSeparatesFrames ==
    [][\A listing \in LayoutListings :
          \A rnd \in [DOMAIN listing -> RandomPoints] :
             InitializeFromFileSystem(listing, rnd) =>
                \E loaded \in {loadFramesFromDirectory(listing, rnd)} :
                   /\ Len(frames') = Len(loaded)
                   /\ IF AnyTouch(loaded)
                      THEN /\ ~AnyTouch(frames')
                           /\ \A i, j \in DOMAIN frames' :
                                 NextInRow(frames', i, j) =>
                                    RSub(frames'[j].x,
                                         RAdd(frames'[i].x, frames'[i].width))
                                       = R(AUTO_LAYOUT_GAP)
                      ELSE \A i \in DOMAIN loaded :
                              /\ frames'[i].x = loaded[i].x
                              /\ frames'[i].y = loaded[i].y]_vars


\* the resize handles of selected frames within reach of a screen point
HandlesAt(screen) ==
    {getResizeHandle(screen.x, screen.y, frames[i], camera, R(CanvasWidth), R(CanvasHeight)) :
        i \in {j \in DOMAIN frames : frames[j].id \in SeqToSet(selectedIds)}} \ {"none"}
\* the last frame of the collection that contains the world point, 0 for none
LastUnder(p) ==
    IF \E i \in DOMAIN frames : isPointInFrame(p, frames[i])
    THEN CHOOSE i \in DOMAIN frames :
            /\ isPointInFrame(p, frames[i])
            /\ \A j \in DOMAIN frames : isPointInFrame(p, frames[j]) => j <= i
    ELSE 0
\* the selection after a click on the frame with this id
Clicked(sel, id, modifier) ==
    IF ~modifier THEN <<id>>
    ELSE IF id \in SeqToSet(sel) THEN Filter(sel, {i \in DOMAIN sel : sel[i] # id})
    ELSE Append(sel, id)

GestureStaysActive ==
    /\ [][(dragState.isDragging
           /\ (dragState.dragOffset # Null \/ dragState.resizeHandle # "none"))
          => (camera' = camera /\ Len(frames') = Len(frames))]_vars
    /\ [][(dragState.isDragging /\ dragState.dragOffset = Null
           /\ dragState.resizeHandle = "none")
          => (/\ Len(frames') >= Len(frames)
              /\ \A i \in DOMAIN frames : frames'[i] = frames[i])]_vars


\* C33: no pointer-move pushes a snapshot, and the pointer-up that ends a
\* move or a resize of frames pushes exactly one snapshot when a pointer-move
\* of the gesture has changed a frame and none when no frame was changed.
GesturePushesOnce ==
    /\ [][\A w \in PointerPoints :
             MouseMove(ScreenOf(w)) => UNCHANGED <<history, historyIndex>>]_vars
    /\ [][\A w \in PointerPoints :
             (/\ effectiveTool = "select"
              /\ dragState.isDragging
              /\ (dragState.dragOffset # Null \/ dragState.resizeHandle # "none")
              /\ MouseUp(ScreenOf(w)))
             => IF mutated
                THEN \E r \in {saveHistoryResult(history, historyIndex,
                                                 Snapshot(frames', selectedIds', camera'))} :
                        /\ history' = r.history
                        /\ historyIndex' = r.historyIndex
                ELSE UNCHANGED <<history, historyIndex>>]_vars


\* C34: the pointer-up that ends the drawing of a frame adds one frame and
\* asks the backend for its directory if and only if the box from the start
\* point to the pointer is more than 10 world units wide and more than 10
\* high, in absolute value; otherwise frames, selection and history stay as
\* they are and the backend is asked for nothing.
SmallBoxDiscarded ==
    [][\A screen \in ThresholdPoints :
          (/\ effectiveTool = "frame"
           /\ dragState.isDragging
           /\ dragState.startPoint # Null
           /\ dragState.dragOffset = Null
           /\ dragState.resizeHandle = "none"
           /\ MouseUp(screen))
          => \E start \in {dragState.startPoint[1]}, p \in {WorldOf(screen)} :
                IF /\ RLt(R(10), RAbs(RSub(p.x, start.x)))
                   /\ RLt(R(10), RAbs(RSub(p.y, start.y)))
                THEN /\ Len(frames') = Len(frames) + 1
                     /\ SubSeq(frames', 1, Len(frames)) = frames
                     /\ Len(requests') = 1
                     /\ requests'[1].kind = "create"
                ELSE /\ frames' = frames
                     /\ selectedIds' = selectedIds
                     /\ UNCHANGED <<history, historyIndex>>
                     /\ requests' = <<>>]_vars

\* the drawing of a box exactly 10 world units wide and 200 high is in
\* progress, and releasing the pointer there adds nothing
SmallBoxDiscardedWitness ==
    /\ effectiveTool = "frame"
    /\ dragState.isDragging
    /\ dragState.dragOffset = Null
    /\ dragState.resizeHandle = "none"
    /\ dragState.startPoint # Null
    /\ selectionBox # Null
    /\ \E screen \in ThresholdPoints :
          /\ RSub(WorldOf(screen).x, dragState.startPoint[1].x) = R(10)
          /\ RSub(WorldOf(screen).y, dragState.startPoint[1].y) = R(200)
          /\ selectionBox[1].endX = WorldOf(screen).x
          /\ ENABLED (MouseUp(screen) /\ frames' = frames /\ requests' = <<>>)


\* C35: every pointer-up leaves dragState at {isDragging: false, startPoint:
\* null, dragOffset: null, resizeHandle: null} and selectionBox at null, and
\* every pointer-down finds dragOffset and resizeHandle without a value of an
\* earlier gesture.
TransientStateCleared ==
    /\ [][\A w \in PointerPoints :
             MouseUp(ScreenOf(w)) => (dragState' = IdleDrag /\ selectionBox' = Null)]_vars
    /\ [][\A w \in PointerPoints, modifier \in BOOLEAN :
             MouseDown(ScreenOf(w), modifier)
             => (dragState.dragOffset = Null /\ dragState.resizeHandle = "none")]_vars


\* v is the multiple of the grid size nearest to target
SnappedTo(v, target) ==
    /\ RRound(RDiv(v, R(gridSize))) = RDiv(v, R(gridSize))
    /\ RLe(RAbs(RSub(v, target)), RDiv(R(gridSize), R(2)))

\* C36: while frames are being moved, a pointer-move puts every selected
\* frame that is not locked at the pointer's world position minus the one
\* dragOffset of the gesture, at the nearest grid point when snap is on, so
\* that they all get the same position, and changes nothing else of any frame.
DragSetsPosition ==
    [][\A w \in MovePoints :
          (/\ effectiveTool = "select"
           /\ dragState.isDragging
           /\ dragState.startPoint # Null
           /\ dragState.resizeHandle = "none"
           /\ dragState.dragOffset # Null
           /\ MouseMove(ScreenOf(w)))
          => \E p \in {WorldOf(ScreenOf(w))}, off \in {dragState.dragOffset[1]} :
                /\ Len(frames') = Len(frames)
                /\ \A i \in DOMAIN frames :
                      IF frames[i].id \in SeqToSet(selectedIds) /\ ~frames[i].locked
                      THEN /\ IF snapToGrid
                              THEN /\ SnappedTo(frames'[i].x, RSub(p.x, off.x))
                                   /\ SnappedTo(frames'[i].y, RSub(p.y, off.y))
                              ELSE /\ frames'[i].x = RSub(p.x, off.x)
                                   /\ frames'[i].y = RSub(p.y, off.y)
                           /\ [frames'[i] EXCEPT !.x = frames[i].x, !.y = frames[i].y]
                                 = frames[i]
                      ELSE frames'[i] = frames[i]]_vars

\* frames a and c, both selected, have been moved to one grid point that the
\* pointer minus the offset does not lie on, and frame b is where it was
DragSetsPositionWitness ==
    /\ dragState.isDragging
    /\ dragState.dragOffset # Null
    /\ snapToGrid
    /\ mutated
    /\ Len(frames) = 3
    /\ SeqToSet(selectedIds) = {frames[1].id, frames[3].id}
    /\ frames[2].x = R(300)
    /\ frames[1].x = frames[3].x
    /\ frames[1].y = frames[3].y
    /\ \E w \in MovePoints :
          /\ frames[1].x # RSub(w.x, dragState.dragOffset[1].x)
          /\ SnappedTo(frames[1].x, RSub(w.x, dragState.dragOffset[1].x))
          /\ SnappedTo(frames[1].y, RSub(w.y, dragState.dragOffset[1].y))


\* C37: while the camera is being panned, every pointer-move leaves the world
\* point recorded at pointer-down under the pointer; as that point was under
\* the pointer's last position, the translation grows by the world-space
\* difference between the pointer's position and its last one; the zoom, the
\* frames and the selection stay as they are.
PanKeepsGrabbedPoint ==
    [][\A screen \in ToolPoints :
          (/\ effectiveTool = "pan"
           /\ dragState.isDragging
           /\ dragState.startPoint # Null
           /\ MouseMove(screen))
          => \E start \in {dragState.startPoint[1]}, p \in {WorldOf(screen)} :
                /\ screenToWorld(screen.x, screen.y, camera',
                                 R(CanvasWidth), R(CanvasHeight)) = start
                /\ camera'.x = RAdd(camera.x, RSub(p.x, start.x))
                /\ camera'.y = RAdd(camera.y, RSub(p.y, start.y))
                /\ camera'.zoom = camera.zoom
                /\ frames' = frames
                /\ selectedIds' = selectedIds
                /\ dragState'.startPoint = <<start>>]_vars

\* a pan with the space bar held has moved the camera away from where
\* zoomToFit put it, and the grabbed point is under one of the pointer
\* positions
PanKeepsGrabbedPointWitness ==
    /\ isSpacePressed
    /\ currentTool = "select"
    /\ dragState.isDragging
    /\ dragState.dragOffset = Null
    /\ dragState.startPoint # Null
    /\ Len(frames) = 1
    /\ camera # zoomToFitResult(frames, camera)
    /\ camera.zoom = <<4, 5>>
    /\ \E screen \in ToolPoints : WorldOf(screen) = dragState.startPoint[1]


\* C38: a stored snapshot never changes: a step that changes history is a
\* saveHistory() that cuts the entries after the cursor, appends the snapshot
\* of the live state and may evict the oldest entry; updateFrame, selection
\* and camera operations, notifications of the watcher, undo and redo leave
\* history as it is; and an undo or a redo that moves the cursor sets frames,
\* selection and camera to those of the entry it moves to.
SnapshotsIndependent ==
    /\ [][history' # history =>
             \E t \in {Append(SubSeq(history, 1, historyIndex + 1),
                              Snapshot(frames, selectedIds, camera))} :
                history' \in {t, Tail(t)}]_vars
    /\ [][(\/ \E id \in Ids(frames) : ToggleLock(id) \/ SelectFrame(id, FALSE)
           \/ ResetCamera
           \/ \E frameData \in {[RecA EXCEPT !.x = R(300)]} : DirChanged(<<"a">>, frameData)
           \/ Undo
           \/ Redo)
          => history' = history]_vars
    /\ [][(Undo /\ historyIndex > 0) =>
             /\ historyIndex' = historyIndex - 1
             /\ [frames |-> frames', selectedIds |-> selectedIds', camera |-> camera']
                   = history[historyIndex]]_vars
    /\ [][(Redo /\ historyIndex < Len(history) - 1) =>
             /\ historyIndex' = historyIndex + 1
             /\ [frames |-> frames', selectedIds |-> selectedIds', camera |-> camera']
                   = history[historyIndex + 2]]_vars

\* two undos have gone back to the first of three snapshots, which differs
\* from the later ones in the lock, the position of frame a, the selection
\* and the camera, and the live state is that snapshot again
SnapshotsIndependentWitness ==
    /\ Len(history) = 3
    /\ historyIndex = 0
    /\ preUndo # Null
    /\ Live = history[1]
    /\ ~history[1].frames[1].locked
    /\ history[3].frames[1].locked
    /\ history[1].frames[1].x # history[3].frames[1].x
    /\ history[1].selectedIds # history[3].selectedIds
    /\ history[1].camera # history[3].camera

\* C39: no two distinct live frames share the same storage location: two
\* frames of the collection whose metadata.dirPath is set never hold the same
\* directory, whatever their names are.
DirPathsDistinct ==
    \A i, j \in DOMAIN frames :
        (i # j /\ frames[i].dirPath # NoDir) => frames[i].dirPath # frames[j].dirPath

\* C40: while frames are being resized with a handle that includes the west
\* edge, no pointer-move changes x + width of a resized frame, and with a
\* handle that includes the north edge none changes y + height, with
\* snap-to-grid off and with snap-to-grid on.
OppositeEdgeFixed ==
    [][\A w \in EdgePoints :
          (/\ effectiveTool = "select"
           /\ dragState.isDragging
           /\ dragState.startPoint # Null
           /\ dragState.resizeHandle # "none"
           /\ MouseMove(ScreenOf(w)))
          => /\ Len(frames') = Len(frames)
             /\ \A i \in DOMAIN frames :
                   (frames[i].id \in SeqToSet(selectedIds) /\ ~frames[i].locked)
                   => /\ HandleIncludes(dragState.resizeHandle, "w")
                         => RAdd(frames'[i].x, frames'[i].width)
                               = RAdd(frames[i].x, frames[i].width)
                      /\ HandleIncludes(dragState.resizeHandle, "n")
                         => RAdd(frames'[i].y, frames'[i].height)
                               = RAdd(frames[i].y, frames[i].height)]_vars

====
